---------------------------- MODULE Spec2Model ----------------------------
(***************************************************************************)
(* Model of the competitor-monitor scoring engine                          *)
(* (src/analysis/ai_summary.py): the deterministic dimension scorers, the  *)
(* external judgment call, the aggregator compare_pages and the weighted   *)
(* depth score.                                                            *)
(*                                                                         *)
(* Texts are TLA+ strings (sequences of one-character strings); Python     *)
(* offsets are 0-based and are kept 0-based here.  Floats that are exact   *)
(* multiples of 0.01 are carried as integers: weights in hundredths, the   *)
(* weighted score in tenths.                                               *)
(***************************************************************************)
EXTENDS Integers, Sequences, FiniteSets, TLC

VARIABLES
    pc,        \* position of the call in progress: "idle", "measured", "judged", "returned", "raised"
    fn,        \* name of the function last called
    args,      \* its arguments
    locals,    \* local variables of a compare_pages call in progress
    ret,       \* the value returned, or the exception raised
    attempts,  \* number of client.messages.create calls made by the current compare_pages call
    db         \* the SQLite tables, the alerts sent and docs/data/history.json

vars == <<pc, fn, args, locals, ret, attempts, db>>

\* ---------------------------------------------------------------- bounds

\* largest word count handed to the word-count scorer
MaxWordCount == 1900
\* a text is the concatenation of at most this many fragments
MaxFrags == 3
\* at most this many of the 8 keys are absent from a score mapping
MaxMissing == 1
\* a page links to at most this many different pages
MaxLinks == 11
\* an anchor is repeated at most this many times
MaxRepeats == 2
\* a heading list holds at most this many question-style headings and other headings
MaxQuestionHeadings == 6
MaxPlainHeadings == 2
\* a heading list holds at most this many H2s, H3s and headings of other levels
MaxH2 == 6
MaxH3 == 2
MaxOther == 3
\* longest text of the character-level diff inputs
MaxDiffLen == 3
\* sentences of the longest diff input, one past the storage cap
MaxSentences == 51
\* seed_pages calls in one behaviour
MaxSeeds == 3
\* snapshots stored between seed_pages calls in one behaviour
MaxStored == 2
\* snapshots of the page handed to run_diff_for_page
MaxSnapshots == 3
\* pipeline runs in one behaviour
MaxRuns == 3

\* max_retries of fetch_page ranges over 0..MaxRetries
MaxRetries == 3
\* write_dashboard_data calls in one behaviour
MaxWrites == 5

\* ------------------------------------------------------- Python built-ins

Max(a, b) == IF a >= b THEN a ELSE b

Min(a, b) == IF a <= b THEN a ELSE b

SetMin(S) == CHOOSE x \in S : \A y \in S : x <= y

UpperLetters == "ABCDEFGHIJKLMNOPQRSTUVWXYZ"

LowerLetters == "abcdefghijklmnopqrstuvwxyz"

Digits == "0123456789"

\* s[i], the empty string when i is out of range
CharAt(s, i) == IF 0 <= i /\ i < Len(s) THEN SubSeq(s, i + 1, i + 1) ELSE ""

CharsOf(alphabet) == {SubSeq(alphabet, i, i) : i \in 1..Len(alphabet)}

UpperSet == CharsOf(UpperLetters)

LowerSet == CharsOf(LowerLetters)

DigitSet == CharsOf(Digits)

LowerTable ==
    [c \in UpperSet |->
        LET i == CHOOSE j \in 1..Len(UpperLetters) : SubSeq(UpperLetters, j, j) = c
        IN  SubSeq(LowerLetters, i, i)]

\* TLA+ strings are ASCII.  "#" stands for U+0130 (capital I with dot above), the one
\* character whose str.lower() is two characters long: "i" followed by U+0307
\* (combining dot above), for which "~" stands.  Both appear only in texts handed to
\* _find_quote and _dim_trust_signals.
DOTTED_I == "#"

COMBINING_DOT == "~"

\* c.lower() for a one-character string
LowerChar(c) ==
    IF c = DOTTED_I THEN "i" \o COMBINING_DOT
    ELSE IF c \in UpperSet THEN LowerTable[c]
    ELSE c

\* s.lower(), halving the string so that the recursion stays shallow
RECURSIVE Lower(_)
Lower(s) ==
    IF Len(s) = 0 THEN ""
    ELSE IF Len(s) = 1 THEN LowerChar(s)
    ELSE LET half == Len(s) \div 2
         IN  Lower(SubSeq(s, 1, half)) \o Lower(SubSeq(s, half + 1, Len(s)))

\* s[a:b] for 0 <= a, b <= len(s)
Slice(s, a, b) == SubSeq(s, a + 1, b)

\* s.startswith(p, i): p occurs in s at 0-based offset i
OccursAt(s, p, i) == i >= 0 /\ i + Len(p) <= Len(s) /\ SubSeq(s, i + 1, i + Len(p)) = p

\* s.find(p): lowest offset of p in s, -1 when absent
Find(s, p) ==
    LET hits == {i \in 0..Len(s) : OccursAt(s, p, i)}
    IN  IF hits = {} THEN -1 ELSE SetMin(hits)

Contains(s, p) == Find(s, p) >= 0

IsSpace(c) == c \in {" ", "\t", "\n", "\r"}

IsDigit(c) == c \in DigitSet

IsWordChar(c) == c \in UpperSet \/ c \in LowerSet \/ c \in DigitSet \/ c = "_"

RECURSIVE LStrip(_)
LStrip(s) == IF Len(s) > 0 /\ IsSpace(Head(s)) THEN LStrip(Tail(s)) ELSE s

RECURSIVE RStrip(_)
RStrip(s) ==
    IF Len(s) > 0 /\ IsSpace(CharAt(s, Len(s) - 1))
    THEN RStrip(SubSeq(s, 1, Len(s) - 1))
    ELSE s

Strip(s) == RStrip(LStrip(s))

\* sep.join(lines)
RECURSIVE Join(_, _)
Join(lines, sep) ==
    IF Len(lines) = 0 THEN ""
    ELSE IF Len(lines) = 1 THEN lines[1]
    ELSE lines[1] \o sep \o Join(Tail(lines), sep)

\* ------------------------------------------------------------ constants

KEYS == {"question_coverage", "faq_coverage", "heading_structure", "word_count",
         "transactional_clarity", "trust_signals", "freshness", "internal_linking"}

\* _WEIGHTS, in hundredths
WEIGHTS == [question_coverage |-> 25, faq_coverage |-> 20, heading_structure |-> 15,
            word_count |-> 15, transactional_clarity |-> 10, trust_signals |-> 5,
            freshness |-> 5, internal_linking |-> 5]

COMPETITION_SLUGS == {"fa-cup", "world-cup", "champions-league", "europa-league", "euro"}

TEAM_QUESTIONS == <<
    "Where is the stadium and how do I get there?",
    "How much do tickets cost?",
    "How do I actually buy tickets?",
    "When are the next fixtures?",
    "Are there hospitality or premium options?",
    "What should I know as a visitor or away fan?",
    "Is this site trustworthy?" >>

COMPETITION_QUESTIONS == <<
    "What rounds or stages are available?",
    "Which teams are involved?",
    "When are the matches?",
    "Where are the venues?",
    "How do I buy?",
    "What is the price range?" >>

GetQuestions(slug) == IF slug \in COMPETITION_SLUGS THEN COMPETITION_QUESTIONS ELSE TEAM_QUESTIONS

\* ----------------------------------------------------------- _find_quote

\* Optional[str]: None, or a string
NoneStr == [is_none |-> TRUE]

SomeStr(s) == [is_none |-> FALSE, value |-> s]

\* a value a Python `if` takes as true
TruthyOpt(q) == ~q.is_none /\ q.value # ""

FindQuote(text, keyword, context) ==
    LET idx == Find(Lower(text), Lower(keyword))
    IN  IF idx < 0
        THEN NoneStr
        ELSE LET start == Max(0, idx - 20)
                 end   == Min(Len(text), idx + context)
             IN  SomeStr(Strip(Slice(text, start, end)))

\* -------------------------------------------------- measured dimensions

\* the tiers with each threshold taken as inclusive
DimWordCountInclusive(wc) ==
    [score |-> IF wc <= 300 THEN 2
               ELSE IF wc <= 600 THEN 4
               ELSE IF wc <= 900 THEN 6
               ELSE IF wc <= 1200 THEN 7
               ELSE IF wc <= 1800 THEN 8
               ELSE 10]

\* D1
DimWordCount(wc) ==
    [score |-> IF wc < 300 THEN 2
               ELSE IF wc < 600 THEN 4
               ELSE IF wc < 900 THEN 6
               ELSE IF wc < 1200 THEN 7
               ELSE IF wc < 1800 THEN 8
               ELSE 10]

\* an exception leaving a function
Raise(name) == [exc |-> name]

IsRaised(r) == "exc" \in DOMAIN r

\* h.get("level") == level
HasLevel(h, level) == "level" \in DOMAIN h /\ h.level = level

\* the 9 given for any heading that is not an H2
DimHeadingsAnyOther(headings) ==
    LET h2s == SelectSeq(headings, LAMBDA h : HasLevel(h, "h2"))
        h3s == SelectSeq(headings, LAMBDA h : ~HasLevel(h, "h2"))
        n2  == Len(h2s)
        n3  == Len(SelectSeq(headings, LAMBDA h : HasLevel(h, "h3")))
        base == IF n2 = 0 THEN 1
                ELSE IF n2 <= 2 THEN 4
                ELSE IF n2 <= 4 THEN 6
                ELSE IF Len(h3s) > 0 THEN 9
                ELSE 7
    IN  IF \E i \in 1..n2 : "text" \notin DOMAIN h2s[i]
        THEN Raise("KeyError")
        ELSE LET h2_texts == [i \in 1..n2 |-> h2s[i].text]
                 counts   == ToString(n2) \o " H2s, " \o ToString(n3) \o " H3s"
             IN  [base_score |-> base, h2_texts |-> h2_texts, h3_count |-> n3,
                  evidence |-> IF n2 = 0 THEN counts
                               ELSE counts \o ". H2s: "
                                    \o Join(SubSeq(h2_texts, 1, Min(5, n2)), ", ")]

\* D2: the base score and the H2 texts; h["text"] raises KeyError on a heading with no text
DimHeadings(headings) ==
    LET h2s == SelectSeq(headings, LAMBDA h : HasLevel(h, "h2"))
        h3s == SelectSeq(headings, LAMBDA h : HasLevel(h, "h3"))
        n2  == Len(h2s)
        n3  == Len(h3s)
        base == IF n2 = 0 THEN 1
                ELSE IF n2 <= 2 THEN 4
                ELSE IF n2 <= 4 THEN 6
                ELSE IF n3 > 0 THEN 9
                ELSE 7
    IN  IF \E i \in 1..n2 : "text" \notin DOMAIN h2s[i]
        THEN Raise("KeyError")
        ELSE LET h2_texts == [i \in 1..n2 |-> h2s[i].text]
                 counts   == ToString(n2) \o " H2s, " \o ToString(n3) \o " H3s"
             IN  [base_score |-> base, h2_texts |-> h2_texts, h3_count |-> n3,
                  evidence |-> IF n2 = 0 THEN counts
                               ELSE counts \o ". H2s: "
                                    \o Join(SubSeq(h2_texts, 1, Min(5, n2)), ", ")]

TRUST_CATEGORIES == <<
    [category |-> "guarantee",
     keywords |-> <<"100% guarantee", "money back guarantee", "guaranteed", "100%">>],
    [category |-> "reviews",
     keywords |-> <<"trustpilot", "reviews", "rated", "stars", "rating">>],
    [category |-> "experience",
     keywords |-> <<"years experience", "since 19", "since 20", "established in">>],
    [category |-> "security",
     keywords |-> <<"secure payment", "ssl", "secure checkout", "safe and secure", "encrypted">>],
    [category |-> "official",
     keywords |-> <<"official", "authorised", "authorized", "licensed seller", "official partner">>] >>

\* index of the first keyword whose quote is truthy, 0 when there is none
FirstHit(text, keywords) ==
    LET hits == {i \in 1..Len(keywords) : TruthyOpt(FindQuote(text, keywords[i], 80))}
    IN  IF hits = {} THEN 0 ELSE SetMin(hits)

\* D4
DimTrustSignals(text) ==
    LET hit == [i \in 1..Len(TRUST_CATEGORIES) |-> FirstHit(text, TRUST_CATEGORIES[i].keywords)]
        cats == {i \in 1..Len(TRUST_CATEGORIES) : hit[i] > 0}
        found == [c \in {TRUST_CATEGORIES[i].category : i \in cats} |->
                    LET i == CHOOSE j \in cats : TRUST_CATEGORIES[j].category = c
                    IN  FindQuote(text, TRUST_CATEGORIES[i].keywords[hit[i]], 80).value]
    IN  [score |-> Min(10, Cardinality(cats) * 2), found_categories |-> found]

\* ---- regular expressions of _dim_freshness, as searches over offsets

\* \b at offset p
Boundary(s, p) == IsWordChar(CharAt(s, p - 1)) # IsWordChar(CharAt(s, p))

\* offsets reached from p by \s+
AfterSpaces(s, p) == {q \in (p + 1)..Len(s) : \A k \in p..(q - 1) : IsSpace(CharAt(s, k))}

\* 202[5-9] at offset p
Year202x(s, p) == OccursAt(s, "202", p) /\ CharAt(s, p + 3) \in {"5", "6", "7", "8", "9"}

\* \d{1,2} at offset p: the offsets it can end at
AfterDay(s, p) ==
    {q \in {p + 1, p + 2} : \A k \in p..(q - 1) : IsDigit(CharAt(s, k))}

\* \b(202[5-9](?:/\d{2})?|2025-2[0-9])\b
SearchSeason(s) ==
    \E i \in 0..Len(s) :
        /\ Boundary(s, i)
        /\ \/ /\ Year202x(s, i)
              /\ \/ /\ CharAt(s, i + 4) = "/"
                    /\ IsDigit(CharAt(s, i + 5))
                    /\ IsDigit(CharAt(s, i + 6))
                    /\ Boundary(s, i + 7)
                 \/ Boundary(s, i + 4)
           \/ /\ OccursAt(s, "2025-2", i)
              /\ IsDigit(CharAt(s, i + 6))
              /\ Boundary(s, i + 7)

MONTH_NAMES == {"January", "February", "March", "April", "May", "June", "July", "August",
                "September", "October", "November", "December"}

MONTH_ABBREVS == {"Jan", "Feb", "Mar", "Apr", "May", "Jun", "Jul", "Aug", "Sep", "Oct",
                  "Nov", "Dec"}

\* \b(January|...|December)\s+\d{1,2}(?:st|nd|rd|th)?,?\s+202[5-9]\b
SearchFixtureDate(s) ==
    \E i \in 0..Len(s) : \E m \in MONTH_NAMES :
        /\ Boundary(s, i)
        /\ OccursAt(s, m, i)
        /\ \E a \in AfterSpaces(s, i + Len(m)) : \E d \in AfterDay(s, a) :
           \E suffix \in {"", "st", "nd", "rd", "th"} : \E comma \in {"", ","} :
              /\ OccursAt(s, suffix, d)
              /\ OccursAt(s, comma, d + Len(suffix))
              /\ \E y \in AfterSpaces(s, d + Len(suffix) + Len(comma)) :
                    Year202x(s, y) /\ Boundary(s, y + 4)

\* \b(Jan|...|Dec)\s+\d{1,2}\b
SearchFixtureAbbrev(s) ==
    \E i \in 0..Len(s) : \E m \in MONTH_ABBREVS :
        /\ Boundary(s, i)
        /\ OccursAt(s, m, i)
        /\ \E a \in AfterSpaces(s, i + Len(m)) : \E d \in AfterDay(s, a) : Boundary(s, d)

\* \b(p1|p2|...)\b with re.I
SearchPhrase(s, phrases) ==
    LET low == Lower(s)
    IN  \E i \in 0..Len(low) : \E p \in phrases :
            Boundary(low, i) /\ OccursAt(low, p, i) /\ Boundary(low, i + Len(p))

FORM_PHRASES == {"current form", "recent result", "recent results", "latest result",
                 "latest results", "this season"}

LANGUAGE_PHRASES == {"upcoming", "latest", "new for", "new season"}

\* the score rounded to the nearest integer instead of cut
DimFreshnessRounded(text) ==
    LET season   == IF SearchSeason(text) THEN <<"season">> ELSE <<>>
        fixtures == IF SearchFixtureDate(text) \/ SearchFixtureAbbrev(text)
                    THEN <<"fixtures">> ELSE <<>>
        form     == IF SearchPhrase(text, FORM_PHRASES) THEN <<"form">> ELSE <<>>
        language == IF SearchPhrase(text, LANGUAGE_PHRASES) THEN <<"language">> ELSE <<>>
        signals  == season \o fixtures \o form \o language
    IN  [score |-> Min(10, (Len(signals) * 25 + 5) \div 10), signals |-> signals]

\* D6: signals holds the type of each signal appended, in order
DimFreshness(text) ==
    LET season   == IF SearchSeason(text) THEN <<"season">> ELSE <<>>
        fixtures == IF SearchFixtureDate(text) \/ SearchFixtureAbbrev(text)
                    THEN <<"fixtures">> ELSE <<>>
        form     == IF SearchPhrase(text, FORM_PHRASES) THEN <<"form">> ELSE <<>>
        language == IF SearchPhrase(text, LANGUAGE_PHRASES) THEN <<"language">> ELSE <<>>
        signals  == season \o fixtures \o form \o language
    IN  [score |-> Min(10, (Len(signals) * 25) \div 10), signals |-> signals]

FAQ_MARKERS == {"frequently asked", "faq", "common questions", "people also ask"}

QUESTION_STARTS == {"how ", "what ", "where ", "when ", "can ", "do ", "is ", "are ", "why ",
                    "which ", "will "}

\* the 7 given only for a marker together with 3 question-style headings
DimFaqBoth(text, headings) ==
    LET text_lower   == Lower(text)
        has_explicit == \E kw \in FAQ_MARKERS : Contains(text_lower, kw)
        question_headings ==
            SelectSeq(headings,
                      LAMBDA h : \E q \in QUESTION_STARTS : OccursAt(Lower(h.text), q, 0))
        count == Len(question_headings)
        score == IF has_explicit /\ count >= 5 THEN 10
                 ELSE IF has_explicit /\ count >= 3 THEN 7
                 ELSE IF count >= 1 THEN 4
                 ELSE 0
    IN  IF \E i \in 1..Len(headings) : "text" \notin DOMAIN headings[i]
        THEN Raise("KeyError")
        ELSE [score |-> score, has_explicit_faq |-> has_explicit,
              question_headings |-> [i \in 1..count |-> question_headings[i].text]]

\* D7; h["text"] raises KeyError on a heading with no text
DimFaq(text, headings) ==
    LET text_lower   == Lower(text)
        has_explicit == \E kw \in FAQ_MARKERS : Contains(text_lower, kw)
        question_headings ==
            SelectSeq(headings,
                      LAMBDA h : \E q \in QUESTION_STARTS : OccursAt(Lower(h.text), q, 0))
        count == Len(question_headings)
        score == IF has_explicit /\ count >= 5 THEN 10
                 ELSE IF has_explicit \/ count >= 3 THEN 7
                 ELSE IF count >= 1 THEN 4
                 ELSE 0
    IN  IF \E i \in 1..Len(headings) : "text" \notin DOMAIN headings[i]
        THEN Raise("KeyError")
        ELSE [score |-> score, has_explicit_faq |-> has_explicit,
              question_headings |-> [i \in 1..count |-> question_headings[i].text]]

\* the tiers with each threshold taken as exclusive
DimInternalLinksExclusive(links) ==
    LET count == Len(links)
    IN  [score |-> IF count > 10 THEN 10
                   ELSE IF count > 6 THEN 7
                   ELSE IF count > 3 THEN 5
                   ELSE 2,
         count |-> count]

\* D8
DimInternalLinks(links) ==
    LET count == Len(links)
    IN  [score |-> IF count >= 10 THEN 10
                   ELSE IF count >= 6 THEN 7
                   ELSE IF count >= 3 THEN 5
                   ELSE 2,
         count |-> count]

\* --------------------------------------------------------- weighted score

RECURSIVE SumOver(_, _)
SumOver(S, f) ==
    IF S = {} THEN 0
    ELSE LET k == CHOOSE x \in S : TRUE IN f[k] + SumOver(S \ {k}, f)

\* sum(_WEIGHTS[k] * scores[k] for k in _WEIGHTS if k in scores), in hundredths
WeightedSum(scores) ==
    LET present == KEYS \cap DOMAIN scores
    IN  SumOver(present, [k \in present |-> WEIGHTS[k] * scores[k]])

\* round(x, 1) of a float x that stands for n hundredths, in tenths.  The float sum
\* carries a representation error of a few ulps, so on an exact tie (n ends in 5)
\* either neighbour can come out: 0.05*3 = 0.15000000000000002 rounds to 0.2, while
\* 0.25*1 + 0.2*1 = 0.45 rounds to 0.4.
RoundToTenths(n) ==
    IF n % 10 = 5 THEN {n \div 10, n \div 10 + 1} ELSE {(n + 5) \div 10}

\* the sum rounded to a whole number instead of to one decimal
WeightedAvgWhole(scores) == {((WeightedSum(scores) + 50) \div 100) * 10}

\* _weighted_avg: the values the call can return, in tenths
WeightedAvg(scores) == RoundToTenths(WeightedSum(scores))

\* round(x) of a float x that is t tenths: halves are exact in binary and go to even
RoundTenthsToInt(t) ==
    LET q == t \div 10
        r == t % 10
    IN  IF r < 5 THEN q
        ELSE IF r > 5 THEN q + 1
        ELSE IF q % 2 = 0 THEN q ELSE q + 1

\* ------------------------------------------------------- JSON values
\* What json.loads returns, tagged by type: null is Python's None, an object a dict
\* (a function from its keys), a list a sequence.  Numbers are integers here.

JNull == [t |-> "null"]

JNum(n) == [t |-> "num", v |-> n]

JStr(s) == [t |-> "str", v |-> s]

JBool(b) == [t |-> "bool", v |-> b]

JList(items) == [t |-> "list", v |-> items]

JObj(fields) == [t |-> "obj", v |-> fields]

\* {}
EmptyObj == JObj([k \in {} |-> JNull])

IsObj(j) == j.t = "obj"

\* the value a Python `if` takes as true
Truthy(j) ==
    CASE j.t = "null" -> FALSE
      [] j.t = "num"  -> j.v # 0
      [] j.t = "str"  -> j.v # ""
      [] j.t = "bool" -> j.v
      [] j.t = "list" -> Len(j.v) > 0
      [] j.t = "obj"  -> DOMAIN j.v # {}

\* int, float and bool take part in arithmetic
IsNumber(j) == j.t \in {"num", "bool"}

NumVal(j) == IF j.t = "bool" THEN (IF j.v THEN 1 ELSE 0) ELSE j.v

\* j.get(key, default): AttributeError unless j is a dict; an exception already
\* raised on the way to j is passed on
DictGet(j, key, default) ==
    IF IsRaised(j) THEN j
    ELSE IF ~IsObj(j) THEN Raise("AttributeError")
    ELSE IF key \in DOMAIN j.v THEN j.v[key] ELSE default

NoError == [ok |-> TRUE]

\* the first exception among the values, in evaluation order; NoError when there is none
FirstRaised(values) ==
    LET raised == {i \in 1..Len(values) : IsRaised(values[i])}
    IN  IF raised = {} THEN NoError ELSE values[SetMin(raised)]

\* ------------------------------------------------- the judgment call

\* _ai_dimensions, lines 358-377: what the call returns for each thing the provider
\* can do.  No client exists without a credential, so no request is made; a failed
\* request and a body that is not JSON are caught and give None; any other body gives
\* whatever json.loads makes of it, dict or not.
AiDimensions(response) ==
    CASE response.kind = "no_credential"   -> JNull
      [] response.kind = "transport_error" -> JNull
      [] response.kind = "invalid_json"    -> JNull
      [] response.kind = "json"            -> response.value

\* a request that failed in transport made once more
RequestsMadeWithRetry(response) ==
    IF response.kind = "no_credential" THEN 0
    ELSE IF response.kind = "transport_error" THEN 2
    ELSE 1

\* requests made to the provider by one _ai_dimensions call
RequestsMade(response) == IF response.kind = "no_credential" THEN 0 ELSE 1

\* ------------------------------------------------- evidence formatting
\* A formatted string is carried as [value |-> string].  The check mark and the
\* ballot cross of the source are written "+" and "x", its em dash "-".

Ok(v) == [value |-> v]

\* str(x) of a quote inside an f-string
FormatQuote(j) ==
    CASE j.t = "str"  -> j.v
      [] j.t = "null" -> "None"
      [] j.t = "num"  -> ToString(j.v)
      [] j.t = "bool" -> IF j.v THEN "True" ELSE "False"
      [] OTHER        -> "..."

\* _fmt_question_answers; the answers are listed in the order of the questions
FmtQuestionAnswers(answers, questions) ==
    IF ~Truthy(answers) THEN Ok("No question coverage data available.")
    ELSE IF ~IsObj(answers) THEN Raise("AttributeError")
    ELSE LET asked == SelectSeq(questions, LAMBDA q : q \in DOMAIN answers.v)
             line(q) ==
                 LET a == answers.v[q]
                     tick == IF Truthy(DictGet(a, "answered", JNull)) THEN "+" ELSE "x"
                     quote == IF Truthy(DictGet(a, "quote", JNull))
                              THEN ": \"" \o FormatQuote(a.v["quote"]) \o "\""
                              ELSE ""
                 IN  tick \o " " \o q \o quote
         IN  IF \E i \in 1..Len(asked) : ~IsObj(answers.v[asked[i]])
             THEN Raise("AttributeError")
             ELSE Ok(Join([i \in 1..Len(asked) |-> line(asked[i])], "\n"))

TRANSACTIONAL_ELEMENTS == <<"cta", "price_range", "delivery_method", "booking_process">>

\* el.replace("_", " ").title()
ElementLabel(el) ==
    CASE el = "cta"             -> "Cta"
      [] el = "price_range"     -> "Price Range"
      [] el = "delivery_method" -> "Delivery Method"
      [] el = "booking_process" -> "Booking Process"

\* an empty string where there is no detail
FmtTransactionalBlank(detail) ==
    IF ~Truthy(detail) THEN Ok("")
    ELSE LET shown == SelectSeq(TRANSACTIONAL_ELEMENTS,
                                LAMBDA el : IsObj(DictGet(detail, el, EmptyObj)))
             line(el) ==
                 LET d == DictGet(detail, el, EmptyObj)
                 IN  IF Truthy(DictGet(d, "found", JNull))
                     THEN "+ " \o ElementLabel(el) \o ": \""
                          \o FormatQuote(DictGet(d, "quote", JStr(""))) \o "\""
                     ELSE "x " \o ElementLabel(el) \o ": not found"
         IN  Ok(Join([i \in 1..Len(shown) |-> line(shown[i])], "\n"))

\* _fmt_transactional; detail is a dict by the time it is formatted
FmtTransactional(detail) ==
    IF ~Truthy(detail) THEN Ok("No transactional data available.")
    ELSE LET shown == SelectSeq(TRANSACTIONAL_ELEMENTS,
                                LAMBDA el : IsObj(DictGet(detail, el, EmptyObj)))
             line(el) ==
                 LET d == DictGet(detail, el, EmptyObj)
                 IN  IF Truthy(DictGet(d, "found", JNull))
                     THEN "+ " \o ElementLabel(el) \o ": \""
                          \o FormatQuote(DictGet(d, "quote", JStr(""))) \o "\""
                     ELSE "x " \o ElementLabel(el) \o ": not found"
         IN  Ok(Join([i \in 1..Len(shown) |-> line(shown[i])], "\n"))

\* ------------------------------------------------------ compare_pages

\* lines 495-511: the measured dimensions of both pages
Measure(a) ==
    [d1_my   |-> DimWordCount(a.my_word_count),
     d1_comp |-> DimWordCount(a.competitor_word_count),
     d2_my_raw   |-> DimHeadings(a.my_headings),
     d2_comp_raw |-> DimHeadings(a.competitor_headings),
     d4_my   |-> DimTrustSignals(a.my_text),
     d4_comp |-> DimTrustSignals(a.competitor_text),
     d6_my   |-> DimFreshness(a.my_text),
     d6_comp |-> DimFreshness(a.competitor_text),
     d7_my   |-> DimFaq(a.my_text, a.my_headings),
     d7_comp |-> DimFaq(a.competitor_text, a.competitor_headings),
     d8_my   |-> DimInternalLinks(a.my_internal_links),
     d8_comp |-> DimInternalLinks(a.competitor_internal_links)]

\* the first exception a scorer raised, in call order
MeasureRaised(m) ==
    FirstRaised(<<m.d2_my_raw, m.d2_comp_raw, m.d7_my, m.d7_comp>>)

\* the adjusted score left unclamped
HeadingScoreUnclamped(base, adj) ==
    IF IsRaised(adj) THEN adj
    ELSE IF ~IsNumber(adj) THEN Raise("TypeError")
    ELSE JNum(base + NumVal(adj))

\* max(1, min(10, base + adj)): TypeError unless adj is a number
HeadingScore(base, adj) ==
    IF IsRaised(adj) THEN adj
    ELSE IF ~IsNumber(adj) THEN Raise("TypeError")
    ELSE JNum(Max(1, Min(10, base + NumVal(adj))))

\* mine - competitor
GapReversed(score_competitor, score_mine) ==
    IF IsRaised(score_competitor) THEN score_competitor
    ELSE IF IsRaised(score_mine) THEN score_mine
    ELSE IF ~IsNumber(score_competitor) \/ ~IsNumber(score_mine) THEN Raise("TypeError")
    ELSE JNum(NumVal(score_mine) - NumVal(score_competitor))

\* competitor - mine: TypeError unless both are numbers
Gap(score_competitor, score_mine) ==
    IF IsRaised(score_competitor) THEN score_competitor
    ELSE IF IsRaised(score_mine) THEN score_mine
    ELSE IF ~IsNumber(score_competitor) \/ ~IsNumber(score_mine) THEN Raise("TypeError")
    ELSE JNum(NumVal(score_competitor) - NumVal(score_mine))

\* evidence + (f" - {verdict}" if verdict else "")
WithVerdict(evidence, verdict) ==
    IF IsRaised(verdict) THEN verdict
    ELSE IF Truthy(verdict) THEN Ok(evidence \o " - " \o FormatQuote(verdict))
    ELSE Ok(evidence)

\* lines 524-564: what the judgment, or its absence, contributes
Judged(ai, m) ==
    IF Truthy(ai)
    THEN LET hd   == DictGet(ai, "heading_diversity", EmptyObj)
             qc   == DictGet(ai, "question_coverage", EmptyObj)
             tc   == DictGet(ai, "transactional_clarity", EmptyObj)
             d3_my   == DictGet(qc, "mine", EmptyObj)
             d3_comp == DictGet(qc, "competitor", EmptyObj)
             d5_my   == DictGet(tc, "mine", EmptyObj)
             d5_comp == DictGet(tc, "competitor", EmptyObj)
         IN  [my_d2_adj       |-> DictGet(DictGet(hd, "mine", EmptyObj), "score_adjustment", JNum(0)),
              comp_d2_adj     |-> DictGet(DictGet(hd, "competitor", EmptyObj), "score_adjustment", JNum(0)),
              my_d2_verdict   |-> DictGet(DictGet(hd, "mine", EmptyObj), "verdict", JStr("")),
              comp_d2_verdict |-> DictGet(DictGet(hd, "competitor", EmptyObj), "verdict", JStr("")),
              d3_score_my     |-> DictGet(d3_my, "score", JNum(0)),
              d3_score_comp   |-> DictGet(d3_comp, "score", JNum(0)),
              d3_my_ans       |-> DictGet(d3_my, "answers", EmptyObj),
              d3_comp_ans     |-> DictGet(d3_comp, "answers", EmptyObj),
              d5_my           |-> d5_my,
              d5_comp         |-> d5_comp,
              d5_score_my     |-> DictGet(d5_my, "score", JNum(0)),
              d5_score_comp   |-> DictGet(d5_comp, "score", JNum(0)),
              content_gaps        |-> DictGet(ai, "content_gaps", JStr("")),
              keywords_they_cover |-> DictGet(ai, "keywords_they_cover", JList(<<>>)),
              recommendations     |-> DictGet(ai, "recommendations", JStr(""))]
    ELSE [my_d2_adj       |-> JNum(0),
          comp_d2_adj     |-> JNum(0),
          my_d2_verdict   |-> JStr("AI analysis unavailable"),
          comp_d2_verdict |-> JStr("AI analysis unavailable"),
          d3_score_my     |-> JNum(0),
          d3_score_comp   |-> JNum(0),
          d3_my_ans       |-> EmptyObj,
          d3_comp_ans     |-> EmptyObj,
          d5_my           |-> EmptyObj,
          d5_comp         |-> EmptyObj,
          d5_score_my     |-> JNum(0),
          d5_score_comp   |-> JNum(0),
          content_gaps        |-> JStr("[AI analysis unavailable - check ANTHROPIC_API_KEY and credits]"),
          keywords_they_cover |-> JList(<<>>),
          recommendations     |-> JStr("[AI analysis unavailable]")]

\* lines 524-661: every value computed up to the dimension list, in evaluation order,
\* each one a value or the exception its computation raises
Steps(slug, m, j) ==
    LET questions == GetQuestions(slug)
    IN  [d2_score_my   |-> HeadingScore(m.d2_my_raw.base_score, j.my_d2_adj),
         d2_score_comp |-> HeadingScore(m.d2_comp_raw.base_score, j.comp_d2_adj),
         d2_ev_my      |-> WithVerdict(m.d2_my_raw.evidence, j.my_d2_verdict),
         d2_ev_comp    |-> WithVerdict(m.d2_comp_raw.evidence, j.comp_d2_verdict),
         d3_gap        |-> Gap(j.d3_score_comp, j.d3_score_my),
         d3_ev_my      |-> IF IsRaised(j.d3_my_ans) THEN j.d3_my_ans
                           ELSE FmtQuestionAnswers(j.d3_my_ans, questions),
         d3_ev_comp    |-> IF IsRaised(j.d3_comp_ans) THEN j.d3_comp_ans
                           ELSE FmtQuestionAnswers(j.d3_comp_ans, questions),
         d5_gap        |-> Gap(j.d5_score_comp, j.d5_score_my),
         d5_ev_my      |-> IF IsRaised(j.d5_my) THEN j.d5_my ELSE FmtTransactional(j.d5_my),
         d5_ev_comp    |-> IF IsRaised(j.d5_comp) THEN j.d5_comp ELSE FmtTransactional(j.d5_comp)]

\* the exception that ends the call, in the order the source evaluates; [ok |-> TRUE]
\* when there is none
BuildRaised(j, st) ==
    LET r == FirstRaised(<<j.my_d2_adj, j.comp_d2_adj, j.my_d2_verdict, j.comp_d2_verdict,
                           st.d2_score_my, st.d2_score_comp,
                           j.d3_score_my, j.d3_score_comp, j.d3_my_ans, j.d3_comp_ans,
                           j.d5_score_my, j.d5_score_comp,
                           j.content_gaps, j.keywords_they_cover, j.recommendations,
                           st.d3_gap, st.d3_ev_my, st.d3_ev_comp,
                           st.d5_gap, st.d5_ev_my, st.d5_ev_comp>>)
    IN  r

\* lines 567-661: the dimension list.  The heading, question and transactional
\* entries carry their evidence; the evidence of the measured entries and the
\* recommendation strings are formatting only and are left out.
Dimensions(m, j, st) ==
    << [dimension |-> "Word Count Adequacy",
        score_mine |-> m.d1_my.score, score_competitor |-> m.d1_comp.score,
        gap |-> m.d1_comp.score - m.d1_my.score],
       [dimension |-> "Heading Structure",
        score_mine |-> st.d2_score_my.v, score_competitor |-> st.d2_score_comp.v,
        gap |-> st.d2_score_comp.v - st.d2_score_my.v,
        my_evidence |-> st.d2_ev_my.value, competitor_evidence |-> st.d2_ev_comp.value],
       [dimension |-> "Question Coverage",
        score_mine |-> NumVal(j.d3_score_my), score_competitor |-> NumVal(j.d3_score_comp),
        gap |-> st.d3_gap.v,
        my_evidence |-> st.d3_ev_my.value, competitor_evidence |-> st.d3_ev_comp.value],
       [dimension |-> "Trust Signals",
        score_mine |-> m.d4_my.score, score_competitor |-> m.d4_comp.score,
        gap |-> m.d4_comp.score - m.d4_my.score],
       [dimension |-> "Transactional Clarity",
        score_mine |-> NumVal(j.d5_score_my), score_competitor |-> NumVal(j.d5_score_comp),
        gap |-> st.d5_gap.v,
        my_evidence |-> st.d5_ev_my.value, competitor_evidence |-> st.d5_ev_comp.value],
       [dimension |-> "Freshness Signals",
        score_mine |-> m.d6_my.score, score_competitor |-> m.d6_comp.score,
        gap |-> m.d6_comp.score - m.d6_my.score],
       [dimension |-> "FAQ Coverage",
        score_mine |-> m.d7_my.score, score_competitor |-> m.d7_comp.score,
        gap |-> m.d7_comp.score - m.d7_my.score],
       [dimension |-> "Internal Linking",
        score_mine |-> m.d8_my.score, score_competitor |-> m.d8_comp.score,
        gap |-> m.d8_comp.score - m.d8_my.score] >>

\* the trust and freshness scores wired to each other's key
MyScoresCrossed(m, j, st) ==
    [word_count            |-> m.d1_my.score,
     heading_structure     |-> st.d2_score_my.v,
     question_coverage     |-> NumVal(j.d3_score_my),
     trust_signals         |-> m.d6_my.score,
     transactional_clarity |-> NumVal(j.d5_score_my),
     freshness             |-> m.d4_my.score,
     faq_coverage          |-> m.d7_my.score,
     internal_linking      |-> m.d8_my.score]

\* lines 664-683: the two per-side score mappings
MyScores(m, j, st) ==
    [word_count            |-> m.d1_my.score,
     heading_structure     |-> st.d2_score_my.v,
     question_coverage     |-> NumVal(j.d3_score_my),
     trust_signals         |-> m.d4_my.score,
     transactional_clarity |-> NumVal(j.d5_score_my),
     freshness             |-> m.d6_my.score,
     faq_coverage          |-> m.d7_my.score,
     internal_linking      |-> m.d8_my.score]

CompScores(m, j, st) ==
    [word_count            |-> m.d1_comp.score,
     heading_structure     |-> st.d2_score_comp.v,
     question_coverage     |-> NumVal(j.d3_score_comp),
     trust_signals         |-> m.d4_comp.score,
     transactional_clarity |-> NumVal(j.d5_score_comp),
     freshness             |-> m.d6_comp.score,
     faq_coverage          |-> m.d7_comp.score,
     internal_linking      |-> m.d8_comp.score]

\* lines 688-702: the report, given the two weighted scores
Report(m, j, st, my_weighted, comp_weighted) ==
    [my_depth_score                  |-> RoundTenthsToInt(my_weighted),
     competitor_depth_score          |-> RoundTenthsToInt(comp_weighted),
     my_depth_score_weighted         |-> my_weighted,
     competitor_depth_score_weighted |-> comp_weighted,
     my_dimension_scores             |-> MyScores(m, j, st),
     competitor_dimension_scores     |-> CompScores(m, j, st),
     dimensions                      |-> Dimensions(m, j, st),
     content_gaps                    |-> j.content_gaps,
     keywords_they_cover             |-> j.keywords_they_cover,
     recommendations                 |-> j.recommendations]

\* ------------------------------------------------------------ diff.py

SENTENCE_END == {".", "!", "?"}

\* the offsets where (?<=[.!?])\s+ can start matching: whitespace right after . ! or ?
SentenceBreaks(text) ==
    {p \in 1..(Len(text) - 1) : IsSpace(CharAt(text, p)) /\ CharAt(text, p - 1) \in SENTENCE_END}

\* re.split(r"(?<=[.!?])\s+", text): the pieces between the whitespace runs that
\* follow a sentence end; each run is consumed whole
RECURSIVE ReSplit(_)
ReSplit(text) ==
    IF SentenceBreaks(text) = {} THEN <<text>>
    ELSE LET p == SetMin(SentenceBreaks(text))
             rest == LStrip(SubSeq(text, p + 1, Len(text)))
         IN  <<SubSeq(text, 1, p)>> \o ReSplit(rest)

\* [s.strip() for s in raw if s.strip()]
RECURSIVE StrippedNonEmpty(_)
StrippedNonEmpty(raw) ==
    IF Len(raw) = 0 THEN <<>>
    ELSE IF Strip(Head(raw)) = "" THEN StrippedNonEmpty(Tail(raw))
    ELSE <<Strip(Head(raw))>> \o StrippedNonEmpty(Tail(raw))

\* _split_sentences
SplitSentences(text) == StrippedNonEmpty(ReSplit(text))

\* set(lst)
SetOf(lst) == {lst[i] : i \in 1..Len(lst)}

\* every sentence, whatever the other text has
NotInUnfiltered(sentences, others) == sentences

\* the sentences of one text that the other text does not have, in order, repeats kept
RECURSIVE NotIn(_, _)
NotIn(sentences, others) ==
    IF Len(sentences) = 0 THEN <<>>
    ELSE IF Head(sentences) \in others THEN NotIn(Tail(sentences), others)
    ELSE <<Head(sentences)>> \o NotIn(Tail(sentences), others)

\* added = [s for s in new_sentences if s not in old_set]
Added(old_sentences, new_sentences) == NotIn(new_sentences, SetOf(old_sentences))

\* the filter of the added sentences, used for the removed ones too
RemovedFromNew(old_sentences, new_sentences) == NotIn(new_sentences, SetOf(old_sentences))

\* removed = [s for s in old_sentences if s not in new_set]
Removed(old_sentences, new_sentences) == NotIn(old_sentences, SetOf(new_sentences))

\* the storage cap on each side's sentences
SENTENCE_CAP == 50

\* the whole list
PrefixUncapped(lst, n) == lst

\* lst[:n]
Prefix(lst, n) == SubSeq(lst, 1, IF Len(lst) < n THEN Len(lst) ELSE n)

\* the blocks a[i:i+k] = b[j:j+k] that lie inside a[alo:ahi] and b[blo:bhi]
MatchBlocks(a, alo, ahi, b, blo, bhi) ==
    {m \in (alo..(ahi - 1)) \X (blo..(bhi - 1)) \X (1..(ahi - alo)) :
        /\ m[1] + m[3] <= ahi
        /\ m[2] + m[3] <= bhi
        /\ SubSeq(a, m[1] + 1, m[1] + m[3]) = SubSeq(b, m[2] + 1, m[2] + m[3])}

\* SequenceMatcher.find_longest_match without junk: the longest block; of those the
\* one that starts earliest in a; of those the one that starts earliest in b
FindLongestMatch(a, alo, ahi, b, blo, bhi) ==
    LET blocks == MatchBlocks(a, alo, ahi, b, blo, bhi)
        Before(m, n) ==
            \/ m[3] > n[3]
            \/ m[3] = n[3] /\ m[1] < n[1]
            \/ m[3] = n[3] /\ m[1] = n[1] /\ m[2] <= n[2]
    IN  IF blocks = {} THEN <<alo, blo, 0>>
        ELSE CHOOSE m \in blocks : \A n \in blocks : Before(m, n)

\* SequenceMatcher.get_matching_blocks, summed: the longest block, then the same
\* to its left and to its right
RECURSIVE MatchingSize(_, _, _, _, _, _)
MatchingSize(a, alo, ahi, b, blo, bhi) ==
    LET m == FindLongestMatch(a, alo, ahi, b, blo, bhi)
        i == m[1]
        j == m[2]
        k == m[3]
    IN  IF k = 0 THEN 0
        ELSE k + (IF alo < i /\ blo < j THEN MatchingSize(a, alo, i, b, blo, j) ELSE 0)
               + (IF i + k < ahi /\ j + k < bhi
                  THEN MatchingSize(a, i + k, ahi, b, j + k, bhi) ELSE 0)

\* SequenceMatcher(None, a, b, autojunk=False): the matched characters M
Matches(a, b) == MatchingSize(a, 0, Len(a), b, 0, Len(b))

\* n / d rounded to the nearest integer, halves to even
RoundDiv(n, d) ==
    LET q == n \div d
        r == n % d
    IN  IF 2 * r < d THEN q
        ELSE IF 2 * r > d THEN q + 1
        ELSE IF q % 2 = 0 THEN q ELSE q + 1

\* the ratio itself as the percentage
ChangePctOfRatio(a, b) == RoundDiv(2 * Matches(a, b) * 10000, Len(a) + Len(b))

\* round((1.0 - ratio()) * 100, 2) with ratio() = 2.0 * M / T, in hundredths of a
\* percent.  The quotient is half way between two hundredths only when T is a
\* multiple of 32.
ChangePct(a, b) ==
    LET T == Len(a) + Len(b)
    IN  RoundDiv((T - 2 * Matches(a, b)) * 10000, T)

\* text or ""
TextOr(q) == IF TruthyOpt(q) THEN q.value ELSE ""

\* compute_diff
ComputeDiff(old_text, new_text) ==
    LET old == TextOr(old_text)
        new == TextOr(new_text)
        old_sentences == SplitSentences(old)
        new_sentences == SplitSentences(new)
    IN  IF old = "" /\ new = ""
        THEN [change_pct |-> 0, added_text |-> "", removed_text |-> "",
              is_significant |-> FALSE]
        ELSE [change_pct |-> ChangePct(old, new),
              added_text |-> Join(Prefix(Added(old_sentences, new_sentences), SENTENCE_CAP), "\n"),
              removed_text |-> Join(Prefix(Removed(old_sentences, new_sentences), SENTENCE_CAP), "\n"),
              is_significant |-> FALSE]

\* ------------------------------------------------------------ storage

\* the day number of the clock when the first behaviour starts
FIRST_DAY == 100

\* the database after init_db, no alert sent, no history file.  page_seq is the
\* AUTOINCREMENT counter of pages; seed_log is a history variable: every
\* (url, site, slug) that a seed_pages call wrote, in order, and seed_calls counts
\* those calls.  latest and history are the two dashboard files, today the day
\* number of the clock, writes the number of write_dashboard_data calls made on
\* their own.
EmptyDb ==
    [pages |-> <<>>, page_seq |-> 0, snapshots |-> <<>>, diffs |-> <<>>,
     alerts |-> <<>>, history |-> <<>>, seed_log |-> <<>>, seed_calls |-> 0,
     latest |-> <<>>, today |-> FIRST_DAY, writes |-> 0]

\* the offsets of the rows of a table that satisfy a condition on one column
RowsWhere(table, column, value) == {i \in 1..Len(table) : table[i][column] = value}

NoRow == [is_none |-> TRUE]

\* get_page_by_url: SELECT * FROM pages WHERE url = ?  (url is UNIQUE)
GetPageByUrl(d, url) ==
    IF RowsWhere(d.pages, "url", url) = {} THEN NoRow
    ELSE d.pages[CHOOSE i \in RowsWhere(d.pages, "url", url) : TRUE]

\* INSERT OR REPLACE: the row of the URL is dropped and a new one written
UpsertPageReplacing(d, url, site, slug) ==
    [d EXCEPT
        !.page_seq = d.page_seq + 1,
        !.pages = Append(SelectSeq(d.pages, LAMBDA r : r.url # url),
                         [id |-> d.page_seq + 1, url |-> url, site |-> site,
                          page_slug |-> slug])]

\* INSERT INTO pages ... ON CONFLICT(url) DO UPDATE SET site, page_slug.  Every
\* statement takes the next AUTOINCREMENT value, whether it inserts or updates.
UpsertPage(d, url, site, slug) ==
    LET hit == RowsWhere(d.pages, "url", url)
        row == [id |-> d.page_seq + 1, url |-> url, site |-> site, page_slug |-> slug]
    IN  [d EXCEPT
            !.page_seq = d.page_seq + 1,
            !.pages = IF hit = {} THEN Append(d.pages, row)
                      ELSE [i \in 1..Len(d.pages) |->
                               IF i \in hit
                               THEN [d.pages[i] EXCEPT !.site = site, !.page_slug = slug]
                               ELSE d.pages[i]]]

\* for entry in pages_config: for site_key, url_key in [("mine", ...), ("competitor", ...)]
RECURSIVE Sides(_)
Sides(pages_config) ==
    IF Len(pages_config) = 0 THEN <<>>
    ELSE <<[url |-> Head(pages_config).my_url, site |-> "mine", slug |-> Head(pages_config).slug],
           [url |-> Head(pages_config).competitor_url, site |-> "competitor",
            slug |-> Head(pages_config).slug]>> \o Sides(Tail(pages_config))

\* seed_pages: both URLs of every entry, mine first
RECURSIVE SeedPages(_, _)
SeedPages(d, pages_config) ==
    IF Len(pages_config) = 0 THEN d
    ELSE LET entry == Head(pages_config)
             mine  == UpsertPage(d, entry.my_url, "mine", entry.slug)
             both  == UpsertPage(mine, entry.competitor_url, "competitor", entry.slug)
         IN  SeedPages(both, Tail(pages_config))

\* save_snapshot: INSERT INTO snapshots; ids and scraped_at grow with every insert.
\* url is a history field: the address the text was scraped from.
SaveSnapshot(d, page_id, url, clean_text) ==
    [d EXCEPT !.snapshots =
        Append(d.snapshots, [id |-> Len(d.snapshots) + 1, page_id |-> page_id,
                             url |-> url, clean_text |-> clean_text])]

\* get_latest_snapshots: the n newest snapshots of a page, newest first.  One process
\* stores a page's snapshots more than a second apart, so scraped_at orders them as
\* their ids do.
RECURSIVE NewestFirst(_, _, _)
NewestFirst(table, rows, n) ==
    IF rows = {} \/ n = 0 THEN <<>>
    ELSE LET newest == CHOOSE i \in rows : \A j \in rows : j <= i
         IN  <<table[newest]>> \o NewestFirst(table, rows \ {newest}, n - 1)

GetLatestSnapshots(d, page_id, n) ==
    NewestFirst(d.snapshots, RowsWhere(d.snapshots, "page_id", page_id), n)

\* the comparison made exclusive
IsSignificantChangeAbove(change_pct, threshold_pct) == change_pct > threshold_pct

\* is_significant_change, both percentages in hundredths of a percent
IsSignificantChange(change_pct, threshold_pct) == change_pct >= threshold_pct

\* threshold_pct: float = 5.0 and settings.get("change_threshold_pct", 5.0)
DEFAULT_THRESHOLD == 500

\* an optional setting or argument
NoSetting == [is_none |-> TRUE]

Setting(value) == [is_none |-> FALSE, value |-> value]

ThresholdOf(setting) == IF setting.is_none THEN DEFAULT_THRESHOLD ELSE setting.value

\* the two snapshots taken the other way round
RunDiffForPageSwapped(d, page_id, threshold_pct) ==
    LET snapshots == GetLatestSnapshots(d, page_id, 2)
        result == ComputeDiff(snapshots[1].clean_text, snapshots[2].clean_text)
    IN  IF Len(snapshots) < 2 THEN NoRow
        ELSE [is_none |-> FALSE,
              change_pct |-> result.change_pct,
              added_text |-> result.added_text,
              removed_text |-> result.removed_text,
              is_significant |-> IsSignificantChange(result.change_pct, threshold_pct),
              page_id |-> page_id,
              snapshot_old_id |-> snapshots[1].id,
              snapshot_new_id |-> snapshots[2].id]

\* run_diff_for_page: None with fewer than two snapshots, else the diff of the
\* second-newest (old) and the newest (new) with the flag set.  The word counts
\* that the result also carries are not modelled.
RunDiffForPage(d, page_id, threshold_pct) ==
    LET snapshots == GetLatestSnapshots(d, page_id, 2)
        new_snap == snapshots[1]
        old_snap == snapshots[2]
        result == ComputeDiff(old_snap.clean_text, new_snap.clean_text)
    IN  IF Len(snapshots) < 2 THEN NoRow
        ELSE [is_none |-> FALSE,
              change_pct |-> result.change_pct,
              added_text |-> result.added_text,
              removed_text |-> result.removed_text,
              is_significant |-> IsSignificantChange(result.change_pct, threshold_pct),
              page_id |-> page_id,
              snapshot_old_id |-> old_snap.id,
              snapshot_new_id |-> new_snap.id]

\* save_diff: INSERT INTO diffs
SaveDiff(d, diff_result) ==
    [d EXCEPT !.diffs =
        Append(d.diffs, [id |-> Len(d.diffs) + 1,
                         page_id |-> diff_result.page_id,
                         snapshot_old_id |-> diff_result.snapshot_old_id,
                         snapshot_new_id |-> diff_result.snapshot_new_id,
                         change_pct |-> diff_result.change_pct])]

\* get_latest_diff: the newest diff row of a page
GetLatestDiff(d, page_id) ==
    IF RowsWhere(d.diffs, "page_id", page_id) = {} THEN NoRow
    ELSE NewestFirst(d.diffs, RowsWhere(d.diffs, "page_id", page_id), 1)[1]

\* send_slack_alert is called: the alert is recorded whether or not the webhook
\* accepts it.  The snapshot ids are history fields.
SendSlackAlert(d, side, diff_result) ==
    [d EXCEPT !.alerts =
        Append(d.alerts, [page_url |-> side.url, page_slug |-> side.slug, site |-> side.site,
                          change_pct |-> diff_result.change_pct,
                          snapshot_old_id |-> diff_result.snapshot_old_id,
                          snapshot_new_id |-> diff_result.snapshot_new_id])]

\* _run_diffs_and_notify, the body of the loop for the sides still to visit; state
\* is the database and the significant list so far
RECURSIVE DiffSides(_, _, _)
DiffSides(state, sides, threshold) ==
    IF Len(sides) = 0 THEN state
    ELSE LET side == Head(sides)
             page == GetPageByUrl(state.db, side.url)
             diff_result == RunDiffForPage(state.db, page.id, threshold)
             entry == [change_pct |-> diff_result.change_pct,
                       snapshot_old_id |-> diff_result.snapshot_old_id,
                       snapshot_new_id |-> diff_result.snapshot_new_id,
                       page_id |-> diff_result.page_id,
                       page_url |-> side.url, page_slug |-> side.slug, site |-> side.site]
         IN  IF page = NoRow THEN DiffSides(state, Tail(sides), threshold)
             ELSE IF diff_result = NoRow THEN DiffSides(state, Tail(sides), threshold)
             ELSE IF ~diff_result.is_significant THEN DiffSides(state, Tail(sides), threshold)
             ELSE DiffSides([db |-> SendSlackAlert(SaveDiff(state.db, diff_result), side, diff_result),
                             significant |-> Append(state.significant, entry)],
                            Tail(sides), threshold)

\* _run_diffs_and_notify
RunDiffsAndNotify(d, pages_config, settings) ==
    DiffSides([db |-> d, significant |-> <<>>], Sides(pages_config), ThresholdOf(settings))

\* _scrape_and_store for the sides still to visit.  fetched[k] is what fetch_page and
\* extract gave for the k-th side: None, or the clean text of the page.
RECURSIVE StoreSides(_, _, _)
StoreSides(d, sides, fetched) ==
    IF Len(sides) = 0 THEN d
    ELSE LET side == Head(sides)
             page == GetPageByUrl(d, side.url)
         IN  IF Head(fetched).is_none \/ page = NoRow
             THEN StoreSides(d, Tail(sides), Tail(fetched))
             ELSE StoreSides(SaveSnapshot(d, page.id, side.url, Head(fetched)), Tail(sides),
                             Tail(fetched))

\* _scrape_and_store
ScrapeAndStore(d, pages_config, fetched) == StoreSides(d, Sides(pages_config), fetched)

\* ------------------------------------------------ write_dashboard_data

\* strftime("%Y-%m-%d"): fixed width, most significant digit first.  The model
\* writes the day number that way, in four digits.
StrfDate(day) ==
    LET digits == ToString(day)
    IN  SubSeq("0000", 1, 4 - Len(digits)) \o digits

\* a < b for two strings, character by character as Python compares them
RECURSIVE StrLess(_, _)
StrLess(a, b) ==
    IF Len(b) = 0 THEN FALSE
    ELSE IF Len(a) = 0 THEN TRUE
    ELSE IF Head(a) # Head(b) THEN Find(Digits, Head(a)) < Find(Digits, Head(b))
    ELSE StrLess(Tail(a), Tail(b))

\* history.sort(key=lambda h: h["date"]): a stable sort
RECURSIVE SortByDate(_)
SortByDate(history) ==
    IF Len(history) = 0 THEN <<>>
    ELSE LET first == CHOOSE i \in 1..Len(history) :
                         \A j \in 1..Len(history) :
                            \/ StrLess(history[i].date, history[j].date)
                            \/ history[i].date = history[j].date /\ i <= j
             rest == [k \in 1..(Len(history) - 1) |->
                         IF k < first THEN history[k] ELSE history[k + 1]]
         IN  <<history[first]>> \o SortByDate(rest)

\* the window of history.json in days
HISTORY_DAYS == 90

\* no cutoff at all
CutoffNever(now) == StrfDate(0)

\* cutoff = (now - timedelta(days=90)).strftime("%Y-%m-%d")
Cutoff(now) == StrfDate(now - HISTORY_DAYS)

\* the newest snapshot of the page of a URL, None without page or snapshot
LatestSnapshotOf(d, url) ==
    LET page == GetPageByUrl(d, url)
    IN  IF page = NoRow THEN NoRow
        ELSE IF GetLatestSnapshots(d, page.id, 1) = <<>> THEN NoRow
        ELSE GetLatestSnapshots(d, page.id, 1)[1]

\* write_dashboard_data, lines 229-254: the status of one page pair.  sig_by_url is
\* keyed by page_url and looked up with the slug.
StatusOf(d, entry, significant_diffs) ==
    LET my_page == GetPageByUrl(d, entry.my_url)
        my_diff == IF my_page = NoRow THEN NoRow ELSE GetLatestDiff(d, my_page.id)
        sig_by_url == {significant_diffs[i].page_url : i \in 1..Len(significant_diffs)}
    IN  IF /\ LatestSnapshotOf(d, entry.my_url) = NoRow
           /\ LatestSnapshotOf(d, entry.competitor_url) = NoRow
        THEN "error"
        ELSE IF entry.slug \in sig_by_url \/ (my_diff # NoRow /\ my_diff.change_pct >= 500)
        THEN "changed"
        ELSE "unchanged"

\* how many page entries have a status
CountStatus(page_entries, status) ==
    Cardinality({i \in 1..Len(page_entries) : page_entries[i].status = status})

\* write_dashboard_data: latest.json is overwritten; history.json loses today's
\* entry and every entry before the cutoff, gains today's, and is sorted.  today is
\* read from the clock at line 220 and the cutoff at line 343, when the clock
\* reads cutoff_now.
WriteDashboardData(d, pages_config, significant_diffs, today, cutoff_now) ==
    LET page_entries ==
            [k \in 1..Len(pages_config) |->
                [slug |-> pages_config[k].slug,
                 my_url |-> pages_config[k].my_url,
                 competitor_url |-> pages_config[k].competitor_url,
                 status |-> StatusOf(d, pages_config[k], significant_diffs)]]
        row == [date |-> StrfDate(today),
                changed |-> CountStatus(page_entries, "changed"),
                unchanged |-> CountStatus(page_entries, "unchanged"),
                errors |-> CountStatus(page_entries, "error")]
        others == SelectSeq(d.history, LAMBDA h : h.date # StrfDate(today))
        kept == SelectSeq(Append(others, row), LAMBDA h : ~StrLess(h.date, Cutoff(cutoff_now)))
    IN  [d EXCEPT !.latest = page_entries, !.history = SortByDate(kept)]

\* ------------------------------------------------------------ crawler.py

\* the statuses _is_blocked takes as a block
BLOCK_STATUSES == {403, 429, 503}

\* block_signals of _is_blocked
BLOCK_SIGNALS ==
    <<"captcha", "access denied", "blocked", "cloudflare",
      "please verify you are human", "enable javascript and cookies",
      "checking your browser", "ddos-guard", "bot detected">>

\* _is_blocked(html, status)
IsBlocked(html, status) ==
    IF status \in BLOCK_STATUSES THEN TRUE
    ELSE LET lower == Lower(html)
         IN  \E k \in 1..Len(BLOCK_SIGNALS) : Contains(lower, BLOCK_SIGNALS[k])

\* what one pass of the loop of fetch_page meets: the browser context cannot be
\* built, page.goto times out, page.goto raises something else, or a document
\* is loaded (status 0 when goto gives no response)
Outcome(kind, status, html) == [kind |-> kind, status |-> status, html |-> html]

\* the pass was blocked
BlockedOutcome(outcome) == outcome.kind = "loaded" /\ IsBlocked(outcome.html, outcome.status)

\* the pass ends in the except clauses or in the blocked branch
RetriedOutcome(outcome) == outcome.kind \in {"timeout", "error"} \/ BlockedOutcome(outcome)

\* ------------------------------------------------- inputs of the scorers

\* score values used to fill a score mapping
ScoreSamples == {0, 3, 10}

\* score mappings with at most MaxMissing of the 8 keys absent
ScoreMappings ==
    UNION {[present -> ScoreSamples] :
              present \in {D \in SUBSET KEYS : Cardinality(KEYS \ D) <= MaxMissing}}

FreshnessFragments == {" ", "2026", "2025/26", "March 3rd, 2026", "Mar 3", "this season",
                       "Latest results"}

RECURSIVE Concat(_)
Concat(parts) == IF Len(parts) = 0 THEN "" ELSE Head(parts) \o Concat(Tail(parts))

\* the concatenations of at most MaxFrags fragments
TextsOver(fragments) ==
    {Concat(parts) : parts \in UNION {[1..n -> fragments] : n \in 0..MaxFrags}}

FreshnessTexts == TextsOver(FreshnessFragments)

\* ------------------------------------------------ inputs of compare_pages

Links(n) == [i \in 1..n |-> "https://example.com/page-" \o ToString(i)]

H(level, text) == [level |-> level, text |-> text]

\* nothing extracted: every scorer at its lowest tier
PageEmpty ==
    [url |-> "https://example.com/empty", text |-> "", headings |-> <<>>,
     word_count |-> 0, internal_links |-> <<>>]

\* 3 question-style H2s, an explicit FAQ marker, two freshness signals, one trust category
PageFaq ==
    [url |-> "https://example.com/faq",
     text |-> "Frequently asked questions about upcoming fixtures this season. Secure payment.",
     headings |-> << H("h1", "Tickets"), H("h2", "How do I buy tickets"),
                     H("h2", "Where is the stadium"), H("h2", "When are the fixtures") >>,
     word_count |-> 650, internal_links |-> Links(4)]

\* 1900 words, 5 H2s, 2 H3s, one question-style heading, 12 links
PageDeep ==
    [url |-> "https://example.com/deep",
     text |-> "Our 100% money back guarantee. Trustpilot rated 4.8 stars. Next match March 3rd, 2026",
     headings |-> << H("h2", "Tickets"), H("h2", "Stadium guide"), H("h3", "Parking"),
                     H("h2", "Travel"), H("h3", "By train"), H("h2", "Hospitality"),
                     H("h2", "How to buy") >>,
     word_count |-> 1900, internal_links |-> Links(12)]

SamplePages == {PageEmpty, PageFaq, PageDeep}

\* a team page and a competition page
SampleSlugs == {"arsenal", "fa-cup"}

CompareArgs(slug, mine, competitor) ==
    [slug |-> slug,
     my_url |-> mine.url, my_text |-> mine.text, my_headings |-> mine.headings,
     my_word_count |-> mine.word_count, my_internal_links |-> mine.internal_links,
     competitor_url |-> competitor.url, competitor_text |-> competitor.text,
     competitor_headings |-> competitor.headings,
     competitor_word_count |-> competitor.word_count,
     competitor_internal_links |-> competitor.internal_links]

\* ---- what the provider can answer

\* the adjustments the prompt asks for (line 352)
AdjValues == {-2, 0, 2}

\* round((answered_count / n) * 10), the score the prompt asks for (line 353);
\* 10k/n is never a half for n = 6 or 7
PromptScore(k, n) == (20 * k + n) \div (2 * n)

HdSide(adj) == JObj([score_adjustment |-> JNum(adj), verdict |-> JStr("The H2s are varied.")])

\* the first k questions answered, with the score the provider reports
QcSide(questions, k, score) ==
    JObj([answers |->
            JObj([q \in {questions[i] : i \in 1..Len(questions)} |->
                    LET i == CHOOSE n \in 1..Len(questions) : questions[n] = q
                    IN  JObj([answered |-> JBool(i <= k),
                              quote |-> IF i <= k THEN JStr("as quoted") ELSE JNull])]),
          score |-> JNum(score)])

\* (answered, reported score): the score of the prompt's rule, a score that
\* contradicts the answers, and one off the scale
QcSides(questions) ==
    LET n == Len(questions)
    IN  {QcSide(questions, c[1], c[2]) :
            c \in {<<0, 0>>, <<3, PromptScore(3, n)>>, <<0, 10>>, <<n, 11>>}}

\* the first f elements found, with the score the provider reports
TcSide(f, score) ==
    JObj([e \in {"cta", "price_range", "delivery_method", "booking_process", "score"} |->
            IF e = "score" THEN JNum(score)
            ELSE LET i == CHOOSE n \in 1..4 : TRANSACTIONAL_ELEMENTS[n] = e
                 IN  JObj([found |-> JBool(i <= f),
                           quote |-> IF i <= f THEN JStr("as quoted") ELSE JNull])])

\* 2.5 points per element found (line 354), for the even counts
TcSides == {TcSide(c[1], c[2]) : c \in {<<0, 0>>, <<4, 10>>}}

Judgment(hd_my, hd_comp, qc_my, qc_comp, tc_my, tc_comp) ==
    JObj([heading_diversity     |-> JObj([mine |-> hd_my, competitor |-> hd_comp]),
          question_coverage     |-> JObj([mine |-> qc_my, competitor |-> qc_comp]),
          transactional_clarity |-> JObj([mine |-> tc_my, competitor |-> tc_comp]),
          content_gaps          |-> JStr("Away-fan travel guide."),
          keywords_they_cover   |-> JList(<<JStr("away tickets"), JStr("hospitality")>>),
          recommendations       |-> JStr("Add a travel section.")])

\* judgments of the structure the prompt asks for
WellFormed(questions) ==
    {Judgment(HdSide(a), HdSide(b), q1, q2, t1, t2) :
        a \in AdjValues, b \in AdjValues,
        q1 \in QcSides(questions), q2 \in QcSides(questions),
        t1 \in TcSides, t2 \in TcSides}

BaseJudgment(questions) ==
    Judgment(HdSide(2), HdSide(0),
             QcSide(questions, 3, PromptScore(3, Len(questions))), QcSide(questions, 0, 0),
             TcSide(2, 5), TcSide(4, 10))

\* obj without one of its keys
Without(obj, key) == JObj([k \in DOMAIN obj.v \ {key} |-> obj.v[k]])

\* obj with obj[section][side] replaced
WithSide(obj, section, side, value) ==
    JObj([obj.v EXCEPT ![section] = JObj([obj.v[section].v EXCEPT ![side] = value])])

\* obj with obj[section][side][field] replaced
WithField(obj, section, side, field, value) ==
    WithSide(obj, section, side,
             JObj([obj.v[section].v[side].v EXCEPT ![field] = value]))

SECTIONS == {"heading_diversity", "question_coverage", "transactional_clarity"}

\* valid JSON that is not the structure asked for
Malformed(questions) ==
    LET base == BaseJudgment(questions)
    IN  {JNull, JNum(0), JNum(5), JStr("I cannot help with that."), JBool(TRUE),
         JList(<<>>), JList(<<base>>), EmptyObj}
        \cup {Without(base, sec) : sec \in SECTIONS}
        \cup {JObj([base.v EXCEPT ![sec] = bad]) :
                 sec \in SECTIONS, bad \in {JNull, JList(<<>>), JStr("n/a")}}
        \cup {WithSide(base, sec, side, bad) :
                 sec \in SECTIONS, side \in {"mine", "competitor"}, bad \in {JNull, EmptyObj}}
        \cup {WithField(base, "heading_diversity", side, "score_adjustment", bad) :
                 side \in {"mine", "competitor"}, bad \in {JNull, JStr("+2"), JNum(12), JNum(-12)}}
        \cup {WithField(base, sec, side, "score", bad) :
                 sec \in {"question_coverage", "transactional_clarity"},
                 side \in {"mine", "competitor"},
                 bad \in {JNull, JStr("high"), JNum(-1), JNum(11)}}
        \cup {WithField(base, "question_coverage", side, "answers", bad) :
                 side \in {"mine", "competitor"},
                 bad \in {JNull, JList(<<JStr("yes")>>),
                          JObj([q \in {questions[1]} |-> JNull])}}
        \cup {WithField(base, "transactional_clarity", side, "cta", bad) :
                 side \in {"mine", "competitor"}, bad \in {JNull, JBool(TRUE)}}
        \cup {Without(base, "content_gaps"), Without(base, "keywords_they_cover"),
              Without(base, "recommendations")}

\* everything the provider can do with one request
Responses(slug) ==
    {[kind |-> "no_credential"], [kind |-> "transport_error"], [kind |-> "invalid_json"]}
    \cup {[kind |-> "json", value |-> v] :
             v \in WellFormed(GetQuestions(slug)) \cup Malformed(GetQuestions(slug))}

\* --------------------------------- inputs of the internal-link scorer
\* (src/scraper/extractor.py builds the list that is stored and scored)

\* an anchor of the page resolved against its URL: a same-domain URL and a fragment
Href(url, fragment) == [url |-> url, fragment |-> fragment]

\* parsed._replace(fragment="").geturl()
Normalized(href) == href.url

\* the loop of extractor.py lines 76-85 over the anchors left, given the list so far
RECURSIVE InternalLinksFrom(_, _)
InternalLinksFrom(hrefs, internal_links) ==
    IF Len(hrefs) = 0 THEN internal_links
    ELSE LET normalized == Normalized(Head(hrefs))
         IN  InternalLinksFrom(Tail(hrefs),
                 IF \E i \in 1..Len(internal_links) : internal_links[i] = normalized
                 THEN internal_links
                 ELSE Append(internal_links, normalized))

\* the internal_links list extract() returns for a page with these anchors
ExtractInternalLinks(hrefs) == InternalLinksFrom(hrefs, <<>>)

Reversed(seq) == [i \in 1..Len(seq) |-> seq[Len(seq) + 1 - i]]

\* n anchors to n different pages, in document order or reversed, followed by k more
\* anchors to the d-th page, with or without a fragment
AnchorLists ==
    {<<>>} \cup
    UNION {LET plain == [i \in 1..n |-> Href(Links(n)[i], "")]
           IN  {ordered \o [i \in 1..k |-> Href(Links(n)[d], fragment)] :
                   ordered \in {plain, Reversed(plain)},
                   d \in 1..n, k \in 0..MaxRepeats, fragment \in {"", "top"}} :
           n \in 1..MaxLinks}

\* ------------------------------------------ inputs of the quote finder

\* 22 characters, so that a match after it starts more than 20 characters in
FILLER == "Tickets for the final "

QuoteFragments == {"  ", DOTTED_I, FILLER, "Official partner", "ssl secure"}

QuoteTexts == TextsOver(QuoteFragments)

\* a keyword with upper case, two trigger phrases, and a phrase no text holds
QuoteKeywords == {"OFFICIAL", "ssl", "secure", "trustpilot"}

\* the default and windows shorter than the keyword and than the text
QuoteContexts == {0, 10, 80}

\* ------------------------------------------ inputs of the trust scorer

TrustFragments == {" ", "and", "Trustpilot rated", "100% Guarantee since 1998",
                   "Official SSL reviews", "years experience", "Safe and Secure"}

\* 23 times U+0130 and then a trigger phrase
DottedText == "#######################ssl"

TrustTexts == TextsOver(TrustFragments) \cup {DottedText}

\* --------------------------------------------- inputs of the FAQ scorer

FaqTexts == {"", "Tickets and travel", "Our FAQ page", "Frequently Asked Questions",
             "what people also ask"}

QUESTION_SAMPLES == <<"How do I buy tickets", "WHAT is included", "Is it safe",
                      "where is the stadium", "Can I get a refund">>

\* headings that start like a question word but are not followed by a space, or hold
\* the question word later
PLAIN_SAMPLES == <<"However you travel", "Tickets: how to buy", "Whatever">>

Sample(samples, i) == samples[((i - 1) % Len(samples)) + 1]

\* n question-style headings and m others, the others last or first, as H2 or H3
FaqHeadingLists ==
    UNION {LET questions == [i \in 1..n |-> H(level, Sample(QUESTION_SAMPLES, i))]
               plain     == [i \in 1..m |-> H("h2", Sample(PLAIN_SAMPLES, i))]
           IN  {questions \o plain, plain \o questions} :
           n \in 0..MaxQuestionHeadings, m \in 0..MaxPlainHeadings, level \in {"h2", "h3"}}

\* ----------------------------------------- inputs of the heading scorer

\* a heading of the page as the extractor stores it, and one without a level
OtherHeadings == <<H("h1", "Tickets"), H("h4", "Small print"), [text |-> "No level"]>>

\* n2 H2s, n3 H3s and k headings of other levels, in two orders
HeadingLists ==
    UNION {LET h2s    == [i \in 1..n2 |-> H("h2", "Section " \o ToString(i))]
               h3s    == [i \in 1..n3 |-> H("h3", "Detail " \o ToString(i))]
               others == [i \in 1..k |-> Sample(OtherHeadings, i)]
           IN  {others \o h2s \o h3s, h3s \o h2s \o others} :
           n2 \in 0..MaxH2, n3 \in 0..MaxH3, k \in 0..MaxOther}

\* ------------------------------ inputs of run_comparison_for_slug
\* (src/analysis/compare.py): the latest snapshot row of each side, a column being
\* NULL (JNull) or holding a value

Snapshot(clean_text, headings, word_count, internal_links) ==
    [clean_text |-> clean_text, headings |-> headings, word_count |-> word_count,
     internal_links |-> internal_links]

SnapNull == Snapshot(JNull, JNull, JNull, JNull)

SnapEmpty == Snapshot(JStr(""), JList(<<>>), JNum(0), JList(<<>>))

SnapFaq ==
    Snapshot(JStr(PageFaq.text), JList(PageFaq.headings), JNum(PageFaq.word_count),
             JList(PageFaq.internal_links))

\* an H2 without its text
SnapNoText ==
    Snapshot(JStr(PageFaq.text), JList(<<[level |-> "h2"]>>), JNum(PageFaq.word_count),
             JList(PageFaq.internal_links))

\* a heading without its level
SnapNoLevel ==
    Snapshot(JStr(PageFaq.text), JList(<<[text |-> "How to buy"]>>), JNum(PageFaq.word_count),
             JList(PageFaq.internal_links))

\* headings and links stored, text and word count NULL
SnapPartial ==
    Snapshot(JNull, JList(PageDeep.headings), JNull, JList(PageDeep.internal_links))

MySnapshots == {SnapNull, SnapEmpty, SnapFaq, SnapNoText, SnapNoLevel, SnapPartial}

CompetitorSnapshots == {SnapNull, SnapFaq, SnapNoText}

\* value or default, compare.py lines 49-57
OrDefault(value, default) == IF Truthy(value) THEN value.v ELSE default

\* the page compare_pages is handed for a snapshot
Coalesced(url, snap) ==
    [url |-> url,
     text |-> OrDefault(snap.clean_text, ""),
     headings |-> OrDefault(snap.headings, <<>>),
     word_count |-> OrDefault(snap.word_count, 0),
     internal_links |-> OrDefault(snap.internal_links, <<>>)]

\* ------------------------------------------------ inputs of compute_diff

DiffAlphabet == {"a", "b", "c"}

\* the strings over DiffAlphabet of at most MaxDiffLen characters
CharTexts ==
    {Concat(parts) : parts \in UNION {[1..n -> DiffAlphabet] : n \in 0..MaxDiffLen}}

SentenceFragments == {"", " ", "A. ", "B! ", "C?", "a.b", "A.\n", "d\ne. "}

\* one or two sentences, with and without surrounding whitespace, repeats included
SentenceTexts == {x \o y : x \in SentenceFragments, y \in SentenceFragments}

DiffTexts == {NoneStr} \cup {SomeStr(t) : t \in CharTexts \cup SentenceTexts}

\* one sentence MaxSentences times over
LongText == SomeStr(Concat([i \in 1..MaxSentences |-> "x. "]))

\* every pair of the short texts, and the long text against a few of them
DiffPairs ==
    (DiffTexts \X DiffTexts)
        \cup ({LongText} \X {NoneStr, SomeStr("B! "), SomeStr("x. A. ")})
        \cup ({NoneStr, SomeStr("B! "), SomeStr("x. A. ")} \X {LongText})

\* ------------------------------------------------ inputs of seed_pages

Entry(slug, my_url, competitor_url) ==
    [slug |-> slug, my_url |-> my_url, competitor_url |-> competitor_url]

MY_URL == "https://example.com/arsenal"

COMPETITOR_URL == "https://example.org/arsenal"

OTHER_URL == "https://example.org/chelsea"

\* one pair; a pair that moves a URL to the other site and slug; a URL in two
\* pairs of one config; one URL on both sides; no pair at all
SeedConfigs ==
    {<<Entry("arsenal", MY_URL, COMPETITOR_URL)>>,
     <<Entry("chelsea", COMPETITOR_URL, OTHER_URL)>>,
     <<Entry("arsenal", MY_URL, COMPETITOR_URL), Entry("chelsea", OTHER_URL, COMPETITOR_URL)>>,
     <<Entry("arsenal", MY_URL, MY_URL)>>,
     <<>>}

\* ------------------------------------------ inputs of run_diff_for_page

\* two texts of twenty characters that differ in the last one: a change of 5.0 %
TWENTY == "aaaaaaaaaaaaaaaaaaaa"

TWENTY_CHANGED == "aaaaaaaaaaaaaaaaaaab"

StoredTexts ==
    {NoneStr, SomeStr("a"), SomeStr("abc"), SomeStr(TWENTY),
     SomeStr(TWENTY_CHANGED)}

\* the clean_text column of a page's snapshots, oldest first
StoredLists == UNION {[1..n -> StoredTexts] : n \in 0..MaxSnapshots}

\* change_threshold_pct: not set, 0 %, 4.99 %, 50 %, 100 %
ThresholdSettings == {NoSetting, Setting(0), Setting(499), Setting(5000), Setting(10000)}

\* the database with one seeded page pair and the given snapshots of my page
RECURSIVE WithSnapshots(_, _, _)
WithSnapshots(d, url, texts) ==
    IF Len(texts) = 0 THEN d
    ELSE WithSnapshots(SaveSnapshot(d, GetPageByUrl(d, url).id, url, Head(texts)), url,
                       Tail(texts))

PagesConfig == <<Entry("arsenal", MY_URL, COMPETITOR_URL)>>

\* ------------------------------------------------ inputs of the pipeline

\* what a fetch can give for one page: nothing, or one of two page texts that
\* differ by a quarter
Fetches == {NoneStr, SomeStr("aaaa"), SomeStr("aaab")}

\* change_threshold_pct of config.yaml: not set, or 50 %
PipelineSettings == {NoSetting, Setting(5000)}

\* how far the clock has moved since the last dashboard write: the same day, the
\* next day, and across the history window
DaySteps == {0, 1, 45, 91}

\* ------------------------------------------------ inputs of fetch_page

\* documents a page can load: a plain one and two that hold a block phrase, one
\* of them on an ordinary page
LoadedDocuments == {"<p>Goal</p>", "<p>Shot BLOCKED.</p>", "Checking your browser"}

\* response.status, 0 standing for no response
LoadedStatuses == {0, 200, 403, 429, 503}

Outcomes ==
    {Outcome("launch_error", 0, ""), Outcome("timeout", 0, ""), Outcome("error", 0, "")}
        \cup {Outcome("loaded", status, html) :
                  status \in LoadedStatuses, html \in LoadedDocuments}

\* ------------------------------------------------------------ the calls

Init ==
    /\ pc = "idle"
    /\ fn = "none"
    /\ args = <<>>
    /\ locals = <<>>
    /\ ret = <<>>
    /\ attempts = 0
    /\ db = EmptyDb

\* nothing has been called yet: every behaviour is one call
Idle == pc = "idle"

Return(name, arguments, value) ==
    /\ fn' = name
    /\ args' = arguments
    /\ ret' = value
    /\ pc' = IF IsRaised(value) THEN "raised" ELSE "returned"
    /\ locals' = <<>>
    /\ attempts' = 0
    /\ UNCHANGED db

CallWordCount ==
    /\ Idle
    /\ \E wc \in 0..MaxWordCount :
          Return("_dim_word_count", [wc |-> wc], DimWordCount(wc))

CallFreshness ==
    /\ Idle
    /\ \E text \in FreshnessTexts :
          Return("_dim_freshness", [text |-> text], DimFreshness(text))

CallWeightedAvg ==
    /\ Idle
    /\ \E scores \in ScoreMappings : \E value \in WeightedAvg(scores) :
          Return("_weighted_avg", [scores |-> scores], [value |-> value])

\* compare_pages, lines 495-511
CompareMeasure ==
    /\ Idle
    /\ \E slug \in SampleSlugs : \E mine \in SamplePages : \E competitor \in SamplePages :
          LET a == CompareArgs(slug, mine, competitor)
              m == Measure(a)
          IN  /\ fn' = "compare_pages"
              /\ args' = a
              /\ attempts' = 0
              /\ IF IsRaised(MeasureRaised(m))
                 THEN pc' = "raised" /\ ret' = MeasureRaised(m) /\ locals' = <<>>
                 ELSE pc' = "measured" /\ ret' = <<>> /\ locals' = [m |-> m]
    /\ UNCHANGED db

\* compare_pages, lines 513-522: the one call of _ai_dimensions
CompareJudge ==
    /\ pc = "measured"
    /\ \E response \in Responses(args.slug) :
          /\ locals' = [m |-> locals.m, response |-> response, ai |-> AiDimensions(response)]
          /\ attempts' = attempts + RequestsMade(response)
    /\ pc' = "judged"
    /\ UNCHANGED <<fn, args, ret, db>>

\* compare_pages, lines 524-702
CompareBuild ==
    /\ pc = "judged"
    /\ LET j  == Judged(locals.ai, locals.m)
           st == Steps(args.slug, locals.m, j)
       IN  IF IsRaised(BuildRaised(j, st))
           THEN pc' = "raised" /\ ret' = BuildRaised(j, st)
           ELSE /\ pc' = "returned"
                /\ \E my_weighted \in WeightedAvg(MyScores(locals.m, j, st)) :
                   \E comp_weighted \in WeightedAvg(CompScores(locals.m, j, st)) :
                      ret' = Report(locals.m, j, st, my_weighted, comp_weighted)
    /\ UNCHANGED <<fn, args, locals, attempts, db>>

\* extract()'s link list handed to _dim_internal_links (compare_pages line 510)
CallInternalLinks ==
    /\ Idle
    /\ \E hrefs \in AnchorLists :
          LET links == ExtractInternalLinks(hrefs)
          IN  Return("_dim_internal_links", [hrefs |-> hrefs, links |-> links],
                     DimInternalLinks(links))

SpecInternalLinks == Init /\ [][CallInternalLinks]_vars

CallFindQuote ==
    /\ Idle
    /\ \E text \in QuoteTexts : \E keyword \in QuoteKeywords : \E context \in QuoteContexts :
          Return("_find_quote", [text |-> text, keyword |-> keyword, context |-> context],
                 FindQuote(text, keyword, context))

CallTrustSignals ==
    /\ Idle
    /\ \E text \in TrustTexts :
          Return("_dim_trust_signals", [text |-> text], DimTrustSignals(text))

SpecFindQuote == Init /\ [][CallFindQuote]_vars

SpecTrustSignals == Init /\ [][CallTrustSignals]_vars

CallFaq ==
    /\ Idle
    /\ \E text \in FaqTexts : \E headings \in FaqHeadingLists :
          Return("_dim_faq", [text |-> text, headings |-> headings], DimFaq(text, headings))

CallHeadings ==
    /\ Idle
    /\ \E headings \in HeadingLists :
          Return("_dim_headings", [headings |-> headings], DimHeadings(headings))

SpecFaq == Init /\ [][CallFaq]_vars

SpecHeadings == Init /\ [][CallHeadings]_vars

\* run_comparison_for_slug, lines 46-58, up to the measured dimensions of the
\* compare_pages call it makes; the call goes on with CompareJudge and CompareBuild
RunComparisonForSlug ==
    /\ Idle
    /\ \E my_snap \in MySnapshots : \E comp_snap \in CompetitorSnapshots :
          LET a == CompareArgs("arsenal", Coalesced("https://example.com/mine", my_snap),
                               Coalesced("https://example.org/theirs", comp_snap))
              m == Measure(a)
          IN  /\ fn' = "run_comparison_for_slug"
              /\ args' = [slug |-> "arsenal", my_snap |-> my_snap, comp_snap |-> comp_snap]
              /\ attempts' = 0
              /\ IF IsRaised(MeasureRaised(m))
                 THEN pc' = "raised" /\ ret' = MeasureRaised(m) /\ locals' = <<>>
                 ELSE pc' = "measured" /\ ret' = <<>> /\ locals' = [m |-> m]
    /\ UNCHANGED db

SpecRunComparison == Init /\ [][RunComparisonForSlug \/ CompareJudge \/ CompareBuild]_vars

CallComputeDiff ==
    /\ Idle
    /\ \E pair \in DiffPairs :
          Return("compute_diff", [old_text |-> pair[1], new_text |-> pair[2]],
                 ComputeDiff(pair[1], pair[2]))

SpecDiff == Init /\ [][CallComputeDiff]_vars

\* the storage calls can follow one another
AtRest == pc \in {"idle", "stored"}

CallSeedPages ==
    /\ AtRest
    /\ db.seed_calls < MaxSeeds
    /\ \E pages_config \in SeedConfigs :
          /\ db' = [SeedPages(db, pages_config) EXCEPT
                       !.seed_log = db.seed_log \o Sides(pages_config),
                       !.seed_calls = db.seed_calls + 1]
          /\ args' = [pages_config |-> pages_config]
    /\ fn' = "seed_pages"
    /\ pc' = "stored"
    /\ UNCHANGED <<locals, ret, attempts>>

\* _scrape_and_store, lines 79-93: the page row is looked up and the snapshot saved
CallSaveSnapshot ==
    /\ AtRest
    /\ Len(db.snapshots) < MaxStored
    /\ \E url \in {MY_URL, COMPETITOR_URL, OTHER_URL} :
          /\ GetPageByUrl(db, url) # NoRow
          /\ db' = SaveSnapshot(db, GetPageByUrl(db, url).id, url, "A. ")
          /\ args' = [url |-> url]
    /\ fn' = "save_snapshot"
    /\ pc' = "stored"
    /\ UNCHANGED <<locals, ret, attempts>>

SpecSeed == Init /\ [][CallSeedPages \/ CallSaveSnapshot]_vars

CallRunDiffForPage ==
    /\ Idle
    /\ \E stored \in StoredLists : \E threshold_pct \in ThresholdSettings :
          LET d == WithSnapshots(SeedPages(EmptyDb, PagesConfig), MY_URL, stored)
          IN  Return("run_diff_for_page",
                     [stored |-> stored, threshold_pct |-> threshold_pct],
                     RunDiffForPage(d, GetPageByUrl(d, MY_URL).id, ThresholdOf(threshold_pct)))

SpecRunDiff == Init /\ [][CallRunDiffForPage]_vars

\* write_dashboard_data called on its own, some days after the last call; the
\* clock can pass midnight between its two readings
CallWriteDashboardData ==
    /\ AtRest
    /\ \E step \in DaySteps : \E midnight \in {0, 1} :
          /\ db.writes < MaxWrites
          /\ db' = WriteDashboardData([db EXCEPT !.today = db.today + step,
                                                  !.writes = db.writes + 1],
                                      PagesConfig, <<>>,
                                      db.today + step, db.today + step + midnight)
          /\ args' = [pages_config |-> PagesConfig, significant_diffs |-> <<>>]
    /\ fn' = "write_dashboard_data"
    /\ pc' = "stored"
    /\ UNCHANGED <<locals, ret, attempts>>

SpecHistory == Init /\ [][CallWriteDashboardData]_vars

\* run_full_pipeline, lines 384-390: config loaded, init_db, seed_pages.  locals
\* carries the settings, the sides stored by the scrape phase of this run, the
\* significant list of its diff phase, and the number of runs so far.
RunFullPipeline ==
    /\ pc \in {"idle", "written"}
    /\ pc = "written" => locals.runs < MaxRuns
    /\ \E settings \in PipelineSettings :
          /\ pc = "written" => settings = locals.settings
          /\ locals' = [settings |-> settings, stored |-> {}, significant |-> <<>>,
                        runs |-> IF pc = "idle" THEN 1 ELSE locals.runs + 1]
    /\ db' = SeedPages(db, PagesConfig)
    /\ fn' = "run_full_pipeline"
    /\ args' = [pages |-> PagesConfig]
    /\ pc' = "seeded"
    /\ UNCHANGED <<ret, attempts>>

\* run_full_pipeline, line 393: the scrape phase
PipelineScrape ==
    /\ pc = "seeded"
    /\ \E fetched \in [1..Len(Sides(args.pages)) -> Fetches] :
          /\ db' = ScrapeAndStore(db, args.pages, fetched)
          /\ locals' = [locals EXCEPT !.stored =
                           {Sides(args.pages)[k].url :
                               k \in {i \in 1..Len(fetched) : ~fetched[i].is_none}}]
    /\ pc' = "scraped"
    /\ UNCHANGED <<fn, args, ret, attempts>>

\* run_full_pipeline, line 396: the diff phase
PipelineDiff ==
    /\ pc = "scraped"
    /\ LET after == RunDiffsAndNotify(db, args.pages, locals.settings)
       IN  /\ db' = after.db
           /\ locals' = [locals EXCEPT !.significant = after.significant]
    /\ pc' = "diffed"
    /\ UNCHANGED <<fn, args, ret, attempts>>

\* run_full_pipeline, line 410: the dashboard files.  The comparison, GSC and
\* report phases in between leave the database alone.
PipelineDashboard ==
    /\ pc = "diffed"
    /\ db' = WriteDashboardData(db, args.pages, locals.significant, db.today, db.today)
    /\ pc' = "written"
    /\ UNCHANGED <<fn, args, locals, ret, attempts>>

SpecPipeline ==
    Init /\ [][RunFullPipeline \/ PipelineScrape \/ PipelineDiff \/ PipelineDashboard]_vars

\* fetch_page(url, max_retries=...): attempt = 0
CallFetchPage ==
    /\ Idle
    /\ \E max_retries \in 0..MaxRetries :
          /\ fn' = "fetch_page"
          /\ args' = [max_retries |-> max_retries]
          /\ locals' = [attempt |-> 0, outcomes |-> <<>>, waits |-> <<>>]
    /\ pc' = "fetching"
    /\ UNCHANGED <<ret, attempts, db>>

\* one pass of `while attempt < max_retries`; locals.outcomes records what each
\* pass met and locals.waits the value of attempt at each time.sleep(retry_wait)
FetchAttempt ==
    /\ pc = "fetching"
    /\ locals.attempt < args.max_retries
    /\ \E outcome \in Outcomes :
          LET met == Append(locals.outcomes, outcome)
              attempt == locals.attempt + 1
          IN  IF outcome.kind = "launch_error"
              THEN /\ locals' = [locals EXCEPT !.outcomes = met]
                   /\ ret' = Raise("Error")
                   /\ pc' = "raised"
              ELSE IF RetriedOutcome(outcome)
              THEN /\ locals' = [attempt |-> attempt,
                                 outcomes |-> met,
                                 waits |-> IF attempt < args.max_retries
                                           THEN Append(locals.waits, attempt)
                                           ELSE locals.waits]
                   /\ pc' = "fetching"
                   /\ UNCHANGED ret
              ELSE /\ locals' = [locals EXCEPT !.outcomes = met]
                   /\ ret' = SomeStr(outcome.html)
                   /\ pc' = "returned"
    /\ UNCHANGED <<fn, args, attempts, db>>

\* the loop is left: return None
FetchExhausted ==
    /\ pc = "fetching"
    /\ locals.attempt >= args.max_retries
    /\ ret' = NoneStr
    /\ pc' = "returned"
    /\ UNCHANGED <<fn, args, locals, attempts, db>>

SpecFetch == Init /\ [][CallFetchPage \/ FetchAttempt \/ FetchExhausted]_vars

SpecCompare == Init /\ [][CompareMeasure \/ CompareJudge \/ CompareBuild]_vars

Next ==
    \/ CallWordCount
    \/ CallFreshness
    \/ CallWeightedAvg
    \/ CallInternalLinks
    \/ CallFindQuote
    \/ CallTrustSignals
    \/ CallFaq
    \/ CallHeadings
    \/ CallComputeDiff
    \/ CallSeedPages
    \/ CallRunDiffForPage
    \/ CallWriteDashboardData
    \/ RunFullPipeline
    \/ PipelineScrape
    \/ PipelineDiff
    \/ PipelineDashboard
    \/ CallFetchPage
    \/ FetchAttempt
    \/ FetchExhausted
    \/ CallSaveSnapshot
    \/ RunComparisonForSlug
    \/ CompareMeasure
    \/ CompareJudge
    \/ CompareBuild

Spec == Init /\ [][Next]_vars

SpecWordCount == Init /\ [][CallWordCount]_vars

SpecFreshness == Init /\ [][CallFreshness]_vars

SpecWeighted == Init /\ [][CallWeightedAvg]_vars

\* ------------------------------------------------------------ claims

\* a compare_pages call has returned its report
Reported == fn = "compare_pages" /\ pc = "returned"

\* _ai_dimensions returned None
Unavailable == locals.ai.t = "null"

\* the scores the measured dimensions give each sample page
SampleScores ==
    [p \in SamplePages |->
        [word_count       |-> DimWordCount(p.word_count).score,
         trust_signals    |-> DimTrustSignals(p.text).score,
         freshness        |-> DimFreshness(p.text).score,
         faq_coverage     |-> DimFaq(p.text, p.headings).score,
         internal_linking |-> DimInternalLinks(p.internal_links).score]]

MEASURED_KEYS == {"word_count", "trust_signals", "freshness", "faq_coverage", "internal_linking"}

\* the sample page handed in as "mine", as "competitor"
MyPage == CHOOSE p \in SamplePages : p.url = args.my_url

CompetitorPage == CHOOSE p \in SamplePages : p.url = args.competitor_url

DIMENSION_NAMES == {"Word Count Adequacy", "Heading Structure", "Question Coverage",
                    "Trust Signals", "Transactional Clarity", "Freshness Signals",
                    "FAQ Coverage", "Internal Linking"}

\* C1: for a complete score mapping with every value in 0..10, _weighted_avg returns
\* a value in [0,10] that is the dot product with the weight table (.25, .20, .15,
\* .15, .10, .05, .05, .05, summing to 1.00) rounded to one decimal: a tenth nearest
\* to it.
C1_WeightedAvgIsRoundedDotProduct ==
    (/\ fn = "_weighted_avg"
     /\ DOMAIN args.scores = KEYS
     /\ \A k \in KEYS : args.scores[k] \in 0..10)
    => LET sc  == args.scores
           dot == 25 * sc.question_coverage + 20 * sc.faq_coverage
                  + 15 * sc.heading_structure + 15 * sc.word_count
                  + 10 * sc.transactional_clarity + 5 * sc.trust_signals
                  + 5 * sc.freshness + 5 * sc.internal_linking
       IN  /\ 25 + 20 + 15 + 15 + 10 + 5 + 5 + 5 = 100
           /\ pc = "returned"
           /\ ret.value \in 0..100
           /\ 10 * ret.value - dot \in -5..5

\* a complete mapping whose dot product 8.15 lies between two tenths
C1_Witness ==
    /\ fn = "_weighted_avg"
    /\ args.scores = [k \in KEYS |-> IF k = "trust_signals" THEN 3 ELSE IF k = "word_count" THEN 0 ELSE 10]
    /\ ret.value = 82

\* C2: whatever the provider does, compare_pages does not raise and returns a report
\* with all 8 dimensions.
C2_AlwaysReports ==
    (fn = "compare_pages" /\ pc \in {"returned", "raised"})
    => /\ pc = "returned"
       /\ {ret.dimensions[i].dimension : i \in 1..Len(ret.dimensions)} = DIMENSION_NAMES

\* C3: when the judgment is unavailable the report has question_coverage and
\* transactional_clarity 0 on both sides, the five measured scores are the values of
\* their scorers for the pages, keywords_they_cover is empty and content_gaps and
\* recommendations are the fallback strings.
C3_UnavailableFallback ==
    (Reported /\ Unavailable)
    => /\ ret.my_dimension_scores.question_coverage = 0
       /\ ret.competitor_dimension_scores.question_coverage = 0
       /\ ret.my_dimension_scores.transactional_clarity = 0
       /\ ret.competitor_dimension_scores.transactional_clarity = 0
       /\ ret.dimensions[3].score_mine = 0 /\ ret.dimensions[3].score_competitor = 0
       /\ ret.dimensions[5].score_mine = 0 /\ ret.dimensions[5].score_competitor = 0
       /\ \A k \in MEASURED_KEYS :
             /\ ret.my_dimension_scores[k] = SampleScores[MyPage][k]
             /\ ret.competitor_dimension_scores[k] = SampleScores[CompetitorPage][k]
       /\ ret.dimensions[1].score_mine = SampleScores[MyPage].word_count
       /\ ret.dimensions[4].score_mine = SampleScores[MyPage].trust_signals
       /\ ret.dimensions[6].score_mine = SampleScores[MyPage].freshness
       /\ ret.dimensions[7].score_mine = SampleScores[MyPage].faq_coverage
       /\ ret.dimensions[8].score_mine = SampleScores[MyPage].internal_linking
       /\ ret.dimensions[1].score_competitor = SampleScores[CompetitorPage].word_count
       /\ ret.dimensions[4].score_competitor = SampleScores[CompetitorPage].trust_signals
       /\ ret.dimensions[6].score_competitor = SampleScores[CompetitorPage].freshness
       /\ ret.dimensions[7].score_competitor = SampleScores[CompetitorPage].faq_coverage
       /\ ret.dimensions[8].score_competitor = SampleScores[CompetitorPage].internal_linking
       /\ ret.keywords_they_cover.t = "list" /\ ret.keywords_they_cover.v = <<>>
       /\ ret.content_gaps.t = "str"
       /\ ret.content_gaps.v = "[AI analysis unavailable - check ANTHROPIC_API_KEY and credits]"
       /\ ret.recommendations.t = "str"
       /\ ret.recommendations.v = "[AI analysis unavailable]"

\* the request failed, and the 1900-word page still scores 10, 4, 5, 4 and 10
C3_Witness ==
    /\ Reported
    /\ locals.response.kind = "transport_error"
    /\ args.my_url = PageDeep.url
    /\ args.competitor_url = PageFaq.url
    /\ ret.my_dimension_scores.word_count = 10
    /\ ret.my_dimension_scores.trust_signals = 4
    /\ ret.my_dimension_scores.freshness = 5
    /\ ret.my_dimension_scores.faq_coverage = 4
    /\ ret.my_dimension_scores.internal_linking = 10
    /\ ret.my_dimension_scores.question_coverage = 0

\* C4: every score of every report is an integer in [0,10], whatever judgment the
\* provider returns.
C4_ScoresInRange ==
    Reported
    => /\ \A i \in 1..8 : /\ ret.dimensions[i].score_mine \in 0..10
                          /\ ret.dimensions[i].score_competitor \in 0..10
       /\ \A k \in KEYS : /\ ret.my_dimension_scores[k] \in 0..10
                          /\ ret.competitor_dimension_scores[k] \in 0..10

\* C5: _weighted_avg rejects a mapping from which one of the 8 keys is missing.
C5_IncompleteMappingRejected ==
    (fn = "_weighted_avg" /\ DOMAIN args.scores # KEYS) => pc = "raised"

\* the diversity adjustment the judgment holds for a side, 0 when it holds none
AdjustmentOf(side) ==
    IF ~Truthy(locals.ai) THEN 0
    ELSE NumVal(DictGet(DictGet(DictGet(locals.ai, "heading_diversity", EmptyObj),
                                side, EmptyObj),
                        "score_adjustment", JNum(0)))

Clamp(x, lo, hi) == IF x < lo THEN lo ELSE IF x > hi THEN hi ELSE x

\* C6: each side's heading_structure score is clamp(base + adjustment, 1, 10), so it
\* lies in [1,10]; with the judgment unavailable it is the base score.
C6_HeadingScoreClamped ==
    Reported
    => LET base_my   == DimHeadings(args.my_headings).base_score
           base_comp == DimHeadings(args.competitor_headings).base_score
           mine      == ret.dimensions[2].score_mine
           comp      == ret.dimensions[2].score_competitor
       IN  /\ mine = Clamp(base_my + AdjustmentOf("mine"), 1, 10)
           /\ comp = Clamp(base_comp + AdjustmentOf("competitor"), 1, 10)
           /\ mine \in 1..10 /\ comp \in 1..10
           /\ ret.my_dimension_scores.heading_structure = mine
           /\ ret.competitor_dimension_scores.heading_structure = comp
           /\ Unavailable => (mine = base_my /\ comp = base_comp)

\* base 9 adjusted by +2 is held at 10, base 1 adjusted by -2 is held at 1
C6_Witness ==
    /\ Reported
    /\ args.my_url = PageDeep.url
    /\ args.competitor_url = PageEmpty.url
    /\ Truthy(locals.ai)
    /\ AdjustmentOf("mine") = 2
    /\ AdjustmentOf("competitor") = -2
    /\ ret.dimensions[2].score_mine = 10
    /\ ret.dimensions[2].score_competitor = 1

\* the number of questions the judgment flags answered for a side
AnsweredCount(side) ==
    IF ~Truthy(locals.ai) THEN 0
    ELSE LET answers == DictGet(DictGet(DictGet(locals.ai, "question_coverage", EmptyObj),
                                        side, EmptyObj),
                                "answers", EmptyObj)
         IN  Cardinality({q \in DOMAIN answers.v :
                             Truthy(DictGet(answers.v[q], "answered", JNull))})

\* C7: each side's question_coverage score is round(10 * answered_count / total).
C7_QuestionScoreFromAnswers ==
    Reported
    => LET n == Len(GetQuestions(args.slug))
       IN  /\ ret.dimensions[3].score_mine = PromptScore(AnsweredCount("mine"), n)
           /\ ret.dimensions[3].score_competitor = PromptScore(AnsweredCount("competitor"), n)

\* C8: in each of the 8 dimension entries, gap = score_competitor - score_mine.
C8_GapIsCompetitorMinusMine ==
    Reported
    => /\ Len(ret.dimensions) = 8
       /\ \A i \in 1..8 :
             ret.dimensions[i].gap
                = ret.dimensions[i].score_competitor - ret.dimensions[i].score_mine

\* a report with the competitor ahead on one judged dimension and behind on another
C8_Witness ==
    /\ Reported
    /\ Truthy(locals.ai)
    /\ ret.dimensions[3].gap < 0
    /\ ret.dimensions[5].gap > 0
    /\ ret.dimensions[1].gap > 0

\* C9: the word-count score is 2 below 300, 4 below 600, 6 below 900, 7 below 1200,
\* 8 below 1800 and 10 from there on; it is one of 2, 4, 6, 7, 8, 10 and never
\* decreases as the count grows.
C9_WordCountTiers ==
    fn = "_dim_word_count"
    => LET w == args.wc
           sc == ret.score
       IN  /\ (sc = 2)  <=> (w < 300)
           /\ (sc = 4)  <=> (300 <= w /\ w < 600)
           /\ (sc = 6)  <=> (600 <= w /\ w < 900)
           /\ (sc = 7)  <=> (900 <= w /\ w < 1200)
           /\ (sc = 8)  <=> (1200 <= w /\ w < 1800)
           /\ (sc = 10) <=> (1800 <= w)
           /\ sc \in {2, 4, 6, 7, 8, 10}
           /\ \A v \in 0..w : DimWordCount(v).score <= sc

\* the first count of the top tier
C9_Witness == fn = "_dim_word_count" /\ args.wc = 1800 /\ ret.score = 10

\* the signal types, in the order the scorer looks for them
SIGNAL_TYPES == <<"season", "fixtures", "form", "language">>

\* 0 to 4 signals, each type at most once
SignalsCountedOnce(signals) ==
    /\ Len(signals) \in 0..4
    /\ \A i \in 1..Len(signals) : \E t \in 1..4 : signals[i] = SIGNAL_TYPES[t]
    /\ \A i, k \in 1..Len(signals) : i # k => signals[i] # signals[k]

\* C10 as stated: 0 to 4 signals, each type once, and
\* score = min(10, round(signal_count * 2.5)).
C10_FreshnessScoreRounded ==
    fn = "_dim_freshness"
    => /\ SignalsCountedOnce(ret.signals)
       /\ ret.score = Min(10, RoundTenthsToInt(Len(ret.signals) * 25))

\* C10 as the code has it: 0 to 4 signals, each type once, and
\* score = min(10, floor(signal_count * 2.5)): 0, 2, 5, 7, 10.
C10_FreshnessScoreTruncated ==
    fn = "_dim_freshness"
    => /\ SignalsCountedOnce(ret.signals)
       /\ ret.score = CASE Len(ret.signals) = 0 -> 0
                        [] Len(ret.signals) = 1 -> 2
                        [] Len(ret.signals) = 2 -> 5
                        [] Len(ret.signals) = 3 -> 7
                        [] Len(ret.signals) = 4 -> 10

\* three signals score 7
C10_Witness ==
    /\ fn = "_dim_freshness"
    /\ args.text = "2026 Latest results"
    /\ ret.signals = <<"season", "form", "language">>
    /\ ret.score = 7

\* the pages the anchors of a list point to
LinkedPages(hrefs) == {hrefs[i].url : i \in 1..Len(hrefs)}

OccursIgnoringCase(s, p, i) ==
    i >= 0 /\ i + Len(p) <= Len(s) /\ Lower(Slice(s, i, i + Len(p))) = Lower(p)

\* the offsets of s at which p occurs without regard to case
MatchOffsets(s, p) == {i \in 0..Len(s) : OccursIgnoringCase(s, p, i)}

\* q is a contiguous substring of s
IsSubstring(q, s) == \E a \in 0..Len(s) : \E b \in a..Len(s) : Slice(s, a, b) = q

\* the names of the categories with a trigger phrase occurring in the text
CategoriesOccurring(text) ==
    {TRUST_CATEGORIES[i].category :
        i \in {j \in 1..Len(TRUST_CATEGORIES) :
                  \E k \in 1..Len(TRUST_CATEGORIES[j].keywords) :
                     MatchOffsets(text, TRUST_CATEGORIES[j].keywords[k]) # {}}}

\* the first trigger phrase of the category, in list order, that occurs in the text
FirstOccurring(text, category) ==
    LET c == CHOOSE j \in 1..Len(TRUST_CATEGORIES) : TRUST_CATEGORIES[j].category = category
        kws == TRUST_CATEGORIES[c].keywords
    IN  kws[SetMin({k \in 1..Len(kws) : MatchOffsets(text, kws[k]) # {}})]

\* C12: the trust score is min(10, 2 * number of categories found); a category is
\* found iff one of its trigger phrases occurs in the text without regard to case,
\* and its quote is the one taken at the first such phrase in list order.
C12_TrustScoreFromCategories ==
    fn = "_dim_trust_signals"
    => LET occurring == CategoriesOccurring(args.text)
       IN  /\ DOMAIN ret.found_categories = occurring
           /\ ret.score = Min(10, 2 * Cardinality(occurring))
           /\ \A c \in occurring :
                 ret.found_categories[c]
                    = FindQuote(args.text, FirstOccurring(args.text, c), 80).value

\* C13: _find_quote returns None when the keyword does not occur in the text without
\* regard to case; otherwise the stripped substring of the text from 20 characters
\* before the first match (or the start) through context characters after it (or the
\* end); a result that is not None is a contiguous substring of the text.
C13_QuoteAroundFirstMatch ==
    fn = "_find_quote"
    => LET matches == MatchOffsets(args.text, args.keyword)
       IN  IF matches = {}
           THEN ret.is_none
           ELSE LET first == SetMin(matches)
                    start == Max(0, first - 20)
                    end   == Min(Len(args.text), first + args.context)
                IN  /\ ~ret.is_none
                    /\ ret.value = Strip(Slice(args.text, start, end))
                    /\ IsSubstring(ret.value, args.text)

\* the text starts with a question word followed by a space, in any case
StartsWithQuestionWord(text) ==
    \E q \in QUESTION_STARTS : Len(text) >= Len(q) /\ Lower(SubSeq(text, 1, Len(q))) = q

\* an explicit FAQ marker occurs in the text, in any case
HasFaqMarker(text) == \E kw \in FAQ_MARKERS : MatchOffsets(text, kw) # {}

\* C14: the FAQ score is 10 with an explicit marker and at least 5 question-style
\* headings, else 7 with a marker or at least 3 such headings, else 4 with at least
\* one, else 0; it is one of 0, 4, 7, 10 and does not decrease when a question-style
\* heading is added.
C14_FaqTiers ==
    fn = "_dim_faq"
    => LET headings == args.headings
           explicit == HasFaqMarker(args.text)
           count    == Cardinality({i \in 1..Len(headings) :
                                       StartsWithQuestionWord(headings[i].text)})
           added    == H("h2", "When are the fixtures")
       IN  /\ pc = "returned"
           /\ ret.has_explicit_faq = explicit
           /\ Len(ret.question_headings) = count
           /\ ret.score = IF explicit /\ count >= 5 THEN 10
                          ELSE IF explicit \/ count >= 3 THEN 7
                          ELSE IF count >= 1 THEN 4
                          ELSE 0
           /\ ret.score \in {0, 4, 7, 10}
           /\ DimFaq(args.text, Append(headings, added)).score >= ret.score
           /\ DimFaq(args.text, <<added>> \o headings).score >= ret.score

\* a marker in upper case and five question-style headings score 10
C14_Witness ==
    /\ fn = "_dim_faq"
    /\ args.text = "Frequently Asked Questions"
    /\ Len(ret.question_headings) = 5
    /\ Len(args.headings) > 5
    /\ ret.score = 10

\* the headings of the two levels the scorer counts
OfLevels(headings, levels) ==
    SelectSeq(headings, LAMBDA h : "level" \in DOMAIN h /\ h.level \in levels)

\* C15: with n2 H2s and n3 H3s the base score is 1 if n2 = 0, 4 if n2 is 1 or 2, 6 if
\* n2 is 3 or 4, and for n2 >= 5 it is 9 if n3 >= 1 and 7 otherwise; headings of other
\* levels do not affect it.
C15_HeadingBaseScore ==
    fn = "_dim_headings"
    => LET n2 == Len(OfLevels(args.headings, {"h2"}))
           n3 == Len(OfLevels(args.headings, {"h3"}))
       IN  /\ pc = "returned"
           /\ (n2 = 0) => ret.base_score = 1
           /\ (1 <= n2 /\ n2 <= 2) => ret.base_score = 4
           /\ (3 <= n2 /\ n2 <= 4) => ret.base_score = 6
           /\ (n2 >= 5 /\ n3 >= 1) => ret.base_score = 9
           /\ (n2 >= 5 /\ n3 = 0) => ret.base_score = 7
           /\ ret.h3_count = n3
           /\ DimHeadings(OfLevels(args.headings, {"h2", "h3"})).base_score = ret.base_score

\* five H2s, no H3 and headings of other levels: 7, not 9
C15_Witness ==
    /\ fn = "_dim_headings"
    /\ Len(OfLevels(args.headings, {"h2"})) = 5
    /\ Len(OfLevels(args.headings, {"h3"})) = 0
    /\ Len(args.headings) = 7
    /\ ret.base_score = 7

\* a column that is NULL or empty
NoEvidence(column) == ~Truthy(column)

\* the call ended in an exception of a measured scorer
ScorerRaised == pc = "raised" /\ "m" \notin DOMAIN locals

\* C16: malformed input (null or empty text, null or empty heading list, a heading
\* lacking a field, null word count, null link list) is never an exception: every
\* measured score is in 0..10, at its lowest tier where the input is null or empty,
\* and the comparison returns its report (shown with the judgment unavailable).
C16_MalformedInputIsZeroEvidence ==
    fn = "run_comparison_for_slug"
    => /\ ~ScorerRaised
       /\ "m" \in DOMAIN locals
          => LET m == locals.m
             IN  /\ \A d \in {m.d1_my, m.d1_comp, m.d4_my, m.d4_comp, m.d6_my, m.d6_comp,
                              m.d7_my, m.d7_comp, m.d8_my, m.d8_comp} : d.score \in 0..10
                 /\ m.d2_my_raw.base_score \in 1..10 /\ m.d2_comp_raw.base_score \in 1..10
                 /\ NoEvidence(args.my_snap.word_count) => m.d1_my.score = 2
                 /\ NoEvidence(args.my_snap.clean_text)
                    => m.d4_my.score = 0 /\ m.d6_my.score = 0
                 /\ NoEvidence(args.my_snap.headings) => m.d2_my_raw.base_score = 1
                 /\ (NoEvidence(args.my_snap.headings) /\ NoEvidence(args.my_snap.clean_text))
                    => m.d7_my.score = 0
                 /\ NoEvidence(args.my_snap.internal_links) => m.d8_my.score = 2
       /\ (pc \in {"returned", "raised"} /\ "ai" \in DOMAIN locals /\ Unavailable)
          => (pc = "returned" /\ Len(ret.dimensions) = 8)

\* the evidence strings of the two judged dimensions, mine and competitor
JudgedEvidence ==
    {ret.dimensions[3].my_evidence, ret.dimensions[3].competitor_evidence,
     ret.dimensions[5].my_evidence, ret.dimensions[5].competitor_evidence}

JudgmentCalled == fn = "compare_pages" /\ pc \in {"judged", "returned", "raised"}

\* the request failed in transport, or its answer was not JSON
JudgmentFailed == locals.response.kind \in {"transport_error", "invalid_json"}

\* C18: a compare_pages call makes one attempt at the judgment request, whether it
\* succeeds, fails in transport or returns an unparsable answer; the attempt is never
\* repeated, and a failure gives the unavailable fallback instead of an exception.
C18_SingleAttempt ==
    /\ [](fn = "compare_pages" => attempts \in {0, 1})
    /\ []((JudgmentCalled /\ locals.response.kind # "no_credential") => attempts = 1)
    /\ [][JudgmentCalled => attempts' = attempts]_vars
    /\ []((JudgmentCalled /\ JudgmentFailed)
          => /\ Unavailable
             /\ pc # "raised"
             /\ pc = "returned"
                => /\ ret.content_gaps.v
                        = "[AI analysis unavailable - check ANTHROPIC_API_KEY and credits]"
                   /\ ret.recommendations.v = "[AI analysis unavailable]"
                   /\ ret.my_dimension_scores.question_coverage = 0
                   /\ ret.my_dimension_scores.transactional_clarity = 0)

\* a report made after the one request failed in transport
C18_Witness ==
    /\ Reported
    /\ locals.response.kind = "transport_error"
    /\ attempts = 1
    /\ Unavailable
    /\ ret.recommendations.v = "[AI analysis unavailable]"

\* ---------------------------------------------------------------- C19, C20

\* compute_diff has returned
Diffed == pc = "returned" /\ fn = "compute_diff"

\* compute_diff of the same two texts the other way round
Swapped == ComputeDiff(args.new_text, args.old_text)

\* C19: the character-level change percentage is the same whichever of the two
\* texts is given as the old one: change_pct(a, b) = change_pct(b, a).
C19_ChangePctSymmetric ==
    Diffed => ret.change_pct = Swapped.change_pct

\* C20: the added_text of compute_diff(old, new) is the removed_text of
\* compute_diff(new, old).
C20_AddedIsRemovedOfSwap ==
    Diffed => ret.added_text = Swapped.removed_text

\* a sentence that only the new text has, twice, next to one that only the old has
C20_Witness ==
    /\ Diffed
    /\ args.old_text = SomeStr("B! ")
    /\ args.new_text = SomeStr("A. A.\n")
    /\ ret.added_text = "A.\nA."
    /\ Swapped.removed_text = "A.\nA."
    /\ ret.removed_text = "B!"

\* ---------------------------------------------------------------- C21

\* C21: compute_diff of a non-empty text with itself reports no change, nothing
\* added and nothing removed; compute_diff of two empty or null texts reports the
\* same.
C21_IdenticalTextsNoChange ==
    (/\ Diffed
     /\ \/ TruthyOpt(args.old_text) /\ args.new_text = args.old_text
        \/ ~TruthyOpt(args.old_text) /\ ~TruthyOpt(args.new_text))
    => /\ ret.change_pct = 0
       /\ ret.added_text = ""
       /\ ret.removed_text = ""

\* a text of two sentences compared with itself
C21_Witness ==
    /\ Diffed
    /\ args.old_text = SomeStr("A. B! ")
    /\ args.new_text = SomeStr("A. B! ")
    /\ ret.change_pct = 0

\* ---------------------------------------------------------------- C22, C23

\* the sentences of the two texts of the call
OldSentences == SplitSentences(TextOr(args.old_text))

NewSentences == SplitSentences(TextOr(args.new_text))

\* the sentences compute_diff lists as added and as removed, before they are joined
AddedList == Prefix(Added(OldSentences, NewSentences), SENTENCE_CAP)

RemovedList == Prefix(Removed(OldSentences, NewSentences), SENTENCE_CAP)

\* C22: every sentence listed in added_text appears verbatim in the newer text and
\* is not in the older text's sentence set; every sentence listed in removed_text
\* appears verbatim in the older text and is not in the newer text's sentence set.
C22_ListedSentencesComeFromOneSide ==
    Diffed =>
        /\ ret.added_text = Join(AddedList, "\n")
        /\ ret.removed_text = Join(RemovedList, "\n")
        /\ \A i \in 1..Len(AddedList) :
              /\ Contains(TextOr(args.new_text), AddedList[i])
              /\ AddedList[i] \notin SetOf(OldSentences)
        /\ \A i \in 1..Len(RemovedList) :
              /\ Contains(TextOr(args.old_text), RemovedList[i])
              /\ RemovedList[i] \notin SetOf(NewSentences)

\* both texts share a sentence and each has one of its own, one with a line break
C22_Witness ==
    /\ Diffed
    /\ args.old_text = SomeStr("A. B! ")
    /\ args.new_text = SomeStr("d\ne. A. ")
    /\ ret.added_text = "d\ne."
    /\ ret.removed_text = "B!"

\* the offsets of the sentences that the other side does not have
KeptOffsets(sentences, others) == {i \in 1..Len(sentences) : sentences[i] \notin others}

\* those sentences in their order of occurrence, the first SENTENCE_CAP of them
Expected(sentences, others) ==
    LET kept == KeptOffsets(sentences, others)
        n == IF Cardinality(kept) < SENTENCE_CAP THEN Cardinality(kept) ELSE SENTENCE_CAP
    IN  [k \in 1..n |->
            sentences[CHOOSE i \in kept : Cardinality({j \in kept : j < i}) = k - 1]]

\* C23: the added list is the sentences of the newer text that are not in the older
\* text's sentence set, in their order in the newer text, cut to the first 50; the
\* removed list is the same with the texts swapped; neither holds more than 50.
C23_ListsAreCappedDifferences ==
    Diffed =>
        /\ ret.added_text = Join(Expected(NewSentences, SetOf(OldSentences)), "\n")
        /\ ret.removed_text = Join(Expected(OldSentences, SetOf(NewSentences)), "\n")
        /\ Len(AddedList) <= SENTENCE_CAP
        /\ Len(RemovedList) <= SENTENCE_CAP

\* more new sentences than the cap, all of them absent from the older text
C23_Witness ==
    /\ Diffed
    /\ args.old_text = SomeStr("B! ")
    /\ args.new_text = LongText
    /\ Len(NewSentences) > SENTENCE_CAP
    /\ Len(AddedList) = SENTENCE_CAP
    /\ ret.removed_text = "B!"

\* ---------------------------------------------------------------- C29

\* the last write of a URL in the seed log
LastSeeding(url) ==
    db.seed_log[CHOOSE i \in RowsWhere(db.seed_log, "url", url) :
                    \A j \in RowsWhere(db.seed_log, "url", url) : j <= i]

\* C29: after any sequence of seed_pages calls the pages table holds exactly one row
\* for every URL ever seeded, with the site and slug of the latest seeding of that
\* URL; a URL seeded again keeps its row id, so every stored snapshot still points
\* at the row of the URL it was scraped from.
C29_SeedPagesIsUpsert ==
    /\ [](/\ \A i \in 1..Len(db.seed_log) :
                Cardinality(RowsWhere(db.pages, "url", db.seed_log[i].url)) = 1
          /\ \A i \in 1..Len(db.pages) :
                /\ RowsWhere(db.seed_log, "url", db.pages[i].url) # {}
                /\ db.pages[i].site = LastSeeding(db.pages[i].url).site
                /\ db.pages[i].page_slug = LastSeeding(db.pages[i].url).slug
                /\ Cardinality(RowsWhere(db.pages, "id", db.pages[i].id)) = 1
          /\ \A i \in 1..Len(db.snapshots) :
                GetPageByUrl(db, db.snapshots[i].url).id = db.snapshots[i].page_id)
    /\ [][\A i \in 1..Len(db.pages) :
              /\ Len(db.pages') >= Len(db.pages)
              /\ db.pages'[i].id = db.pages[i].id
              /\ db.pages'[i].url = db.pages[i].url]_vars

\* a URL with a snapshot was seeded again under the other site and another slug
C29_Witness ==
    /\ fn = "seed_pages"
    /\ \E i \in 1..Len(db.snapshots) :
          /\ db.snapshots[i].url = COMPETITOR_URL
          /\ GetPageByUrl(db, COMPETITOR_URL).site = "mine"
          /\ GetPageByUrl(db, COMPETITOR_URL).page_slug = "chelsea"
          /\ GetPageByUrl(db, COMPETITOR_URL).id = db.snapshots[i].page_id

\* ---------------------------------------------------------------- C24

\* run_diff_for_page has returned a diff
DiffRun == pc = "returned" /\ fn = "run_diff_for_page" /\ ret # NoRow

\* what compute_diff returns for the two texts that were diffed
Computed ==
    ComputeDiff(args.stored[Len(args.stored) - 1], args.stored[Len(args.stored)])

RECURSIVE ParseDay(_)
ParseDay(date) ==
    IF Len(date) = 0 THEN 0
    ELSE 10 * ParseDay(SubSeq(date, 1, Len(date) - 1)) + Find(Digits, SubSeq(date, Len(date), Len(date)))

\* C28: after any sequence of write_dashboard_data calls history.json has at most
\* one entry per calendar date, no entry dated more than 90 days before the latest
\* write, and its entries are in ascending date order.
C28_HistoryWindow ==
    fn = "write_dashboard_data" =>
        /\ \A i \in 1..Len(db.history) : \A j \in 1..Len(db.history) :
              i < j => ParseDay(db.history[i].date) < ParseDay(db.history[j].date)
        /\ \A i \in 1..Len(db.history) :
              /\ ParseDay(db.history[i].date) >= db.today - 90
              /\ ParseDay(db.history[i].date) <= db.today
        /\ \E i \in 1..Len(db.history) : ParseDay(db.history[i].date) = db.today

\* four writes: the first has left the window, the last repeats the day of the third
C28_Witness ==
    /\ fn = "write_dashboard_data"
    /\ db.writes = 4
    /\ db.today = FIRST_DAY + 92
    /\ Len(db.history) = 2
    /\ db.history[1].date = StrfDate(FIRST_DAY + 91)
    /\ db.history[2].date = StrfDate(FIRST_DAY + 92)

\* ---------------------------------------------------------------- C26, C27, C30

\* the snapshots of the page of a URL, as offsets into the snapshots table
SnapshotsOf(url) == RowsWhere(db.snapshots, "url", url)

\* the newest snapshot of a URL and the one before it
NewestOf(url) == CHOOSE i \in SnapshotsOf(url) : \A j \in SnapshotsOf(url) : j <= i

SecondNewestOf(url) ==
    CHOOSE i \in SnapshotsOf(url) \ {NewestOf(url)} :
        \A j \in SnapshotsOf(url) \ {NewestOf(url)} : j <= i

\* the change between the two newest snapshots of a URL, in hundredths of a percent
LatestChange(url) ==
    ComputeDiff(db.snapshots[SecondNewestOf(url)].clean_text,
                db.snapshots[NewestOf(url)].clean_text).change_pct

\* the threshold of the run in progress
RunThreshold == IF locals.settings = NoSetting THEN 500 ELSE locals.settings.value

\* the monitored pages in config order, and those among them whose two newest
\* snapshots differ significantly
Monitored == Sides(args.pages)

SignificantSides ==
    {k \in 1..Len(Monitored) :
        /\ Cardinality(SnapshotsOf(Monitored[k].url)) >= 2
        /\ LatestChange(Monitored[k].url) >= RunThreshold}

\* the k-th of them in config order
NthSignificant(k) ==
    Monitored[CHOOSE i \in SignificantSides :
                 Cardinality({j \in SignificantSides : j < i}) = k - 1]

C27_OneDiffPerSnapshotPair ==
    /\ \A i \in 1..Len(db.diffs) : \A j \in 1..Len(db.diffs) :
          (/\ db.diffs[i].page_id = db.diffs[j].page_id
           /\ db.diffs[i].snapshot_old_id = db.diffs[j].snapshot_old_id
           /\ db.diffs[i].snapshot_new_id = db.diffs[j].snapshot_new_id) => i = j
    /\ \A i \in 1..Len(db.alerts) : \A j \in 1..Len(db.alerts) :
          (/\ db.alerts[i].page_url = db.alerts[j].page_url
           /\ db.alerts[i].snapshot_old_id = db.alerts[j].snapshot_old_id
           /\ db.alerts[i].snapshot_new_id = db.alerts[j].snapshot_new_id) => i = j
    /\ pc = "diffed" =>
          \A k \in 1..Len(locals.significant) : locals.significant[k].page_url \in locals.stored

\* the diff phase of the run reported a significant change of one of the two URLs
ReportedFor(entry) ==
    \E k \in 1..Len(locals.significant) :
        locals.significant[k].page_url \in {entry.my_url, entry.competitor_url}

\* C30: in the dashboard data written at the end of a run, a pair has status
\* "changed" whenever the diff phase of that run reported a significant change of
\* its own page or of its competitor page, "error" only when neither side has a
\* stored snapshot, and "unchanged" otherwise.
C30_DashboardStatus ==
    pc = "written" =>
        \A k \in 1..Len(db.latest) :
            LET entry == db.latest[k]
                none == SnapshotsOf(entry.my_url) = {} /\ SnapshotsOf(entry.competitor_url) = {}
            IN  /\ ReportedFor(entry) => entry.status = "changed"
                /\ entry.status = "error" => none
                /\ (~ReportedFor(entry) /\ ~none) => entry.status = "unchanged"

\* ---------------------------------------------------------------- C25

\* an attempt that was blocked, timed out or errored
FailedAttempt(outcome) ==
    \/ outcome.kind \in {"timeout", "error", "launch_error"}
    \/ /\ outcome.kind = "loaded"
       /\ \/ outcome.status \in {403, 429, 503}
          \/ \E k \in 1..Len(BLOCK_SIGNALS) : Contains(Lower(outcome.html), BLOCK_SIGNALS[k])

AllFailed(outcomes) == \A k \in 1..Len(outcomes) : FailedAttempt(outcomes[k])

\* C25: fetch_page ends after at most max_retries attempts; it returns the HTML
\* of the first attempt that is neither blocked (status 403, 429 or 503, or a block
\* phrase in the page) nor timed out nor errored, and makes no attempt after it;
\* it returns None exactly when all max_retries attempts failed; it waits
\* retry_wait only between two attempts, never after the last.
C25_FetchPageRetries ==
    fn = "fetch_page" =>
        LET made == Len(locals.outcomes)
        IN  /\ made <= args.max_retries
            /\ \A k \in 1..Len(locals.waits) :
                  /\ locals.waits[k] = k
                  /\ k < args.max_retries
                  /\ pc # "fetching" => k < made
            /\ pc # "fetching" =>
                  /\ pc = "returned"
                  /\ (ret = NoneStr) <=> (made = args.max_retries /\ AllFailed(locals.outcomes))
                  /\ ret # NoneStr =>
                        /\ made >= 1
                        /\ ~FailedAttempt(locals.outcomes[made])
                        /\ ret = SomeStr(locals.outcomes[made].html)
                        /\ AllFailed(SubSeq(locals.outcomes, 1, made - 1))
                        /\ Len(locals.waits) = made - 1

====
